---------------------------- MODULE Spec2Model ----------------------------
(***************************************************************************)
(* Intent resolution engine of the energy-statistics chatbot: score and    *)
(* resolveIntents (utils/intentDetection.ts, carried as well by            *)
(* utils/accessibility.tsx), PATTERNS and RX (data/patterns.ts) and the    *)
(* word lists of data/lexicon.ts; preprocessInput (utils/preprocess.ts),   *)
(* processMessage and processAndRespond (utils/messageProcessor.ts) and    *)
(* the send, clear and mount handlers of components/ChatbotUI.tsx.         *)
(*                                                                         *)
(* Text is modelled word by word.  A normalized text is a sequence of      *)
(* tokens: a word (a maximal run of letters and digits) or a punctuation   *)
(* mark.  Words are separated by exactly one blank, a punctuation mark is  *)
(* attached to the word before it.  A regular expression /\b(?:a|b c)\b/   *)
(* over such a text matches exactly when one of its alternatives occurs as *)
(* a run of consecutive tokens, so every matcher of the source becomes a   *)
(* predicate on token sequences.  Scores are kept in tenths (5.5 -> 55).   *)
(***************************************************************************)
EXTENDS Integers, Sequences, FiniteSets, TLC

VARIABLES
    pc,             \* "load": data/patterns.ts evaluated; "ready": intentDetection.ts too
    fuzzyTokenHit,  \* the binding `fuzzyTokenHit` of data/patterns.ts
    lastIndex,      \* RX.greeting.lastIndex, in tokens
    text,           \* raw text of the observed call
    isFirstMessage, \* its flag
    out,            \* what the latest call on (text, isFirstMessage) returned
    firstOut,       \* what the first resolveIntents call on it returned
    interleaved,    \* another call was made after that first call
    vec,            \* score vector handed to the resolver stage on its own
    messages,       \* ChatbotUI state `messages`: the sender of each message
    loading,        \* ChatbotUI state `loading`
    saved,          \* the chat history in browser storage, << >> when there is none
    pending,        \* `messagesWithUser` held by the handleSend that is awaiting
    processingResult, \* what processMessage returned to the latest processAndRespond
    lastIndexOf,    \* lastIndex of URL_RE and of EMAIL_RE (utils/preprocess.ts), in tokens
    enteredWith     \* their values when the latest preprocessInput was called

chat == <<messages, loading, saved, pending, processingResult, lastIndexOf, enteredWith>>

vars == <<pc, fuzzyTokenHit, lastIndex, text, isFirstMessage, out, firstOut, interleaved, vec, chat>>

\* ---------------------------------------------------------------------------
\* Bounds of the model.
MaxLen == 3
MaxOtherLen == 1
MaxActive == 3
MaxMessages == 5

\* ---------------------------------------------------------------------------
\* Intents (INTENTS, in declaration order: Object.entries follows it).
INTENTS ==
    << "greeting", "farewell", "thanks", "affirmative", "negative", "help",
       "troubleshooting", "download_request", "viz_request", "data_query",
       "filter_change", "time_change", "metadata_request", "compare_request",
       "command", "question", "smalltalk", "ambiguous", "statement", "invalid" >>

Intent == { INTENTS[i] : i \in 1..Len(INTENTS) }

\* Position of x in sequence s, -1 when absent (Array.prototype.indexOf).
indexOf(s, x) ==
    IF \E i \in 1..Len(s) : s[i] = x
    THEN (CHOOSE i \in 1..Len(s) : s[i] = x /\ \A j \in 1..(i-1) : s[j] # x) - 1
    ELSE -1

includes(s, x) == \E i \in 1..Len(s) : s[i] = x

Range(s) == { s[i] : i \in 1..Len(s) }

RECURSIVE SumSeq(_)
SumSeq(s) == IF s = << >> THEN 0 ELSE Head(s) + SumSeq(Tail(s))

\* All sequences over S of length at most n.
SeqUpTo(S, n) == UNION { [1..k -> S] : k \in 0..n }

\* ---------------------------------------------------------------------------
\* Words the model's texts are made of.  Each pool is one topic; a text takes
\* its tokens from one pool.  " " is one more whitespace character, "?" a
\* question mark, "Hello" a capitalised word.
Pools ==
    { { "Hello", "there", "bye", "team", "?", " " },
      { "good", "evening", "night", "bye", "team", "hello", "?" },
      { "error", "does", "not", "work", "confirmed", "price", "?" },
      { "what", "price", "france", "2020", "compare", "wind", "xyzzy", "hello", "?" },
      { "U+201C", "U+201D", "U+2018", "U+2019", "\"", "'", "hello" } }

\* Sentences the documentation gives as examples.
Sentences ==
    { << "compare", "wind", "energy", "between", "germany", "and", "spain" >>,
      << "night", ",", "and", "bye" >>,
      << "night", "bye", "night", "team" >>,
      << "what", "nice", "to", "meet", "you", "do", "you", "know" >> }

Texts == UNION { SeqUpTo(P, MaxLen) : P \in Pools } \cup Sentences

\* Texts of the calls made on other inputs.
OtherTexts == SeqUpTo({ "Hello", "there", "?" }, MaxOtherLen)

\* Spelling of the words that are looked at letter by letter.
Spell(w) ==
    CASE w = "hello" -> <<"h","e","l","l","o">>
      [] w = "there" -> <<"t","h","e","r","e">>
      [] w = "url" -> <<"u","r","l">>
      [] w = "email" -> <<"e","m","a","i","l">>
      [] w = "helo" -> <<"h","e","l","o">>
      [] w = "nice" -> <<"n","i","c","e">>
      [] w = "meet" -> <<"m","e","e","t">>
      [] w = "know" -> <<"k","n","o","w">>
      [] w = "bye" -> <<"b","y","e">>
      [] w = "good" -> <<"g","o","o","d">>
      [] w = "evening" -> <<"e","v","e","n","i","n","g">>
      [] w = "night" -> <<"n","i","g","h","t">>
      [] w = "team" -> <<"t","e","a","m">>
      [] w = "error" -> <<"e","r","r","o","r">>
      [] w = "does" -> <<"d","o","e","s">>
      [] w = "not" -> <<"n","o","t">>
      [] w = "work" -> <<"w","o","r","k">>
      [] w = "confirmed" -> <<"c","o","n","f","i","r","m","e","d">>
      [] w = "price" -> <<"p","r","i","c","e">>
      [] w = "what" -> <<"w","h","a","t">>
      [] w = "france" -> <<"f","r","a","n","c","e">>
      [] w = "2020" -> <<"2","0","2","0">>
      [] w = "compare" -> <<"c","o","m","p","a","r","e">>
      [] w = "wind" -> <<"w","i","n","d">>
      [] w = "xyzzy" -> <<"x","y","z","z","y">>
      [] w = "energy" -> <<"e","n","e","r","g","y">>
      [] w = "between" -> <<"b","e","t","w","e","e","n">>
      [] w = "germany" -> <<"g","e","r","m","a","n","y">>
      [] w = "and" -> <<"a","n","d">>
      [] w = "spain" -> <<"s","p","a","i","n">>
      [] w = "hi" -> <<"h","i">>
      [] w = "hey" -> <<"h","e","y">>
      [] w = "howdy" -> <<"h","o","w","d","y">>
      [] w = "hiya" -> <<"h","i","y","a">>
      [] w = "yo" -> <<"y","o">>
      [] w = "heya" -> <<"h","e","y","a">>
      [] w = "heyo" -> <<"h","e","y","o">>
      [] w = "sup" -> <<"s","u","p">>
      [] w = "a" -> <<"a">>
      [] w = "an" -> <<"a","n">>
      [] w = "the" -> <<"t","h","e">>
      [] w = "or" -> <<"o","r">>
      [] w = "but" -> <<"b","u","t">>
      [] w = "if" -> <<"i","f">>
      [] w = "then" -> <<"t","h","e","n">>
      [] w = "else" -> <<"e","l","s","e">>
      [] w = "when" -> <<"w","h","e","n">>
      [] w = "where" -> <<"w","h","e","r","e">>
      [] w = "how" -> <<"h","o","w">>
      [] w = "why" -> <<"w","h","y">>
      [] w = "who" -> <<"w","h","o">>
      [] w = "which" -> <<"w","h","i","c","h">>
      [] w = "i" -> <<"i">>
      [] w = "you" -> <<"y","o","u">>
      [] w = "he" -> <<"h","e">>
      [] w = "she" -> <<"s","h","e">>
      [] w = "it" -> <<"i","t">>
      [] w = "we" -> <<"w","e">>
      [] w = "they" -> <<"t","h","e","y">>
      [] w = "me" -> <<"m","e">>
      [] w = "him" -> <<"h","i","m">>
      [] w = "her" -> <<"h","e","r">>
      [] w = "them" -> <<"t","h","e","m">>
      [] w = "my" -> <<"m","y">>
      [] w = "your" -> <<"y","o","u","r">>
      [] w = "his" -> <<"h","i","s">>
      [] w = "its" -> <<"i","t","s">>
      [] w = "our" -> <<"o","u","r">>
      [] w = "their" -> <<"t","h","e","i","r">>
      [] w = "to" -> <<"t","o">>
      [] w = "for" -> <<"f","o","r">>
      [] w = "from" -> <<"f","r","o","m">>
      [] w = "in" -> <<"i","n">>
      [] w = "on" -> <<"o","n">>
      [] w = "at" -> <<"a","t">>
      [] w = "by" -> <<"b","y">>
      [] w = "of" -> <<"o","f">>
      [] w = "with" -> <<"w","i","t","h">>
      [] w = "as" -> <<"a","s">>
      [] w = "is" -> <<"i","s">>
      [] w = "are" -> <<"a","r","e">>
      [] w = "was" -> <<"w","a","s">>
      [] w = "were" -> <<"w","e","r","e">>
      [] w = "be" -> <<"b","e">>
      [] w = "been" -> <<"b","e","e","n">>
      [] w = "being" -> <<"b","e","i","n","g">>
      [] w = "do" -> <<"d","o">>
      [] w = "did" -> <<"d","i","d">>
      [] w = "can" -> <<"c","a","n">>
      [] w = "could" -> <<"c","o","u","l","d">>
      [] w = "should" -> <<"s","h","o","u","l","d">>
      [] w = "would" -> <<"w","o","u","l","d">>
      [] w = "may" -> <<"m","a","y">>
      [] w = "might" -> <<"m","i","g","h","t">>
      [] w = "will" -> <<"w","i","l","l">>
      [] w = "shall" -> <<"s","h","a","l","l">>
      [] w = "this" -> <<"t","h","i","s">>
      [] w = "that" -> <<"t","h","a","t">>
      [] w = "these" -> <<"t","h","e","s","e">>
      [] w = "those" -> <<"t","h","o","s","e">>
      [] w = "here" -> <<"h","e","r","e">>
      [] w = "now" -> <<"n","o","w">>
      [] w = "no" -> <<"n","o">>
      [] w = "yes" -> <<"y","e","s">>
      [] w = "ok" -> <<"o","k">>
      [] w = "okay" -> <<"o","k","a","y">>
      [] w = "please" -> <<"p","l","e","a","s","e">>
      [] w = "thanks" -> <<"t","h","a","n","k","s">>
      [] w = "thank" -> <<"t","h","a","n","k">>
      [] w = "help" -> <<"h","e","l","p">>
      [] w = "download" -> <<"d","o","w","n","l","o","a","d">>
      [] w = "export" -> <<"e","x","p","o","r","t">>
      [] w = "show" -> <<"s","h","o","w">>
      [] w = "plot" -> <<"p","l","o","t">>
      [] w = "chart" -> <<"c","h","a","r","t">>
      [] w = "map" -> <<"m","a","p">>
      [] w = "table" -> <<"t","a","b","l","e">>
      [] w = "definition" -> <<"d","e","f","i","n","i","t","i","o","n">>
      [] w = "source" -> <<"s","o","u","r","c","e">>
      [] w = "frequency" -> <<"f","r","e","q","u","e","n","c","y">>
      [] w = "latest" -> <<"l","a","t","e","s","t">>
      [] w = "trend" -> <<"t","r","e","n","d">>
      [] w = "value" -> <<"v","a","l","u","e">>
      [] w = "values" -> <<"v","a","l","u","e","s">>
      [] w = "increase" -> <<"i","n","c","r","e","a","s","e">>
      [] w = "decrease" -> <<"d","e","c","r","e","a","s","e">>
      [] w = "crash" -> <<"c","r","a","s","h">>
      [] w = "reset" -> <<"r","e","s","e","t">>
      [] w = "filter" -> <<"f","i","l","t","e","r">>
      [] w = "select" -> <<"s","e","l","e","c","t">>
      [] w = "update" -> <<"u","p","d","a","t","e">>
      [] w = "open" -> <<"o","p","e","n">>
      [] w = "close" -> <<"c","l","o","s","e">>
      [] w = "share" -> <<"s","h","a","r","e">>
      [] w = "explain" -> <<"e","x","p","l","a","i","n">>
      [] w = "define" -> <<"d","e","f","i","n","e">>
      [] w = "calculate" -> <<"c","a","l","c","u","l","a","t","e">>
      [] w = "generate" -> <<"g","e","n","e","r","a","t","e">>
      [] w = "summarize" -> <<"s","u","m","m","a","r","i","z","e">>
      [] w = "rank" -> <<"r","a","n","k">>
      [] w = "electricity" -> <<"e","l","e","c","t","r","i","c","i","t","y">>
      [] w = "power" -> <<"p","o","w","e","r">>
      [] w = "gas" -> <<"g","a","s">>
      [] w = "natural" -> <<"n","a","t","u","r","a","l">>
      [] w = "lng" -> <<"l","n","g">>
      [] w = "lpg" -> <<"l","p","g">>
      [] w = "hydrogen" -> <<"h","y","d","r","o","g","e","n">>
      [] w = "biomass" -> <<"b","i","o","m","a","s","s">>
      [] w = "biofuel" -> <<"b","i","o","f","u","e","l">>
      [] w = "renewables" -> <<"r","e","n","e","w","a","b","l","e","s">>
      [] w = "renewable" -> <<"r","e","n","e","w","a","b","l","e">>
      [] w = "solar" -> <<"s","o","l","a","r">>
      [] w = "hydro" -> <<"h","y","d","r","o">>
      [] w = "oil" -> <<"o","i","l">>
      [] w = "petroleum" -> <<"p","e","t","r","o","l","e","u","m">>
      [] w = "coal" -> <<"c","o","a","l">>
      [] w = "lignite" -> <<"l","i","g","n","i","t","e">>
      [] w = "nuclear" -> <<"n","u","c","l","e","a","r">>
      [] w = "heat" -> <<"h","e","a","t">>
      [] w = "district" -> <<"d","i","s","t","r","i","c","t">>
      [] w = "heating" -> <<"h","e","a","t","i","n","g">>
      [] w = "consumption" -> <<"c","o","n","s","u","m","p","t","i","o","n">>
      [] w = "production" -> <<"p","r","o","d","u","c","t","i","o","n">>
      [] w = "generation" -> <<"g","e","n","e","r","a","t","i","o","n">>
      [] w = "demand" -> <<"d","e","m","a","n","d">>
      [] w = "supply" -> <<"s","u","p","p","l","y">>
      [] w = "emission" -> <<"e","m","i","s","s","i","o","n">>
      [] w = "emissions" -> <<"e","m","i","s","s","i","o","n","s">>
      [] w = "intensity" -> <<"i","n","t","e","n","s","i","t","y">>
      [] w = "efficiency" -> <<"e","f","f","i","c","i","e","n","c","y">>
      [] w = "capacity" -> <<"c","a","p","a","c","i","t","y">>
      [] w = "storage" -> <<"s","t","o","r","a","g","e">>
      [] w = "prices" -> <<"p","r","i","c","e","s">>
      [] w = "tariff" -> <<"t","a","r","i","f","f">>
      [] w = "tariffs" -> <<"t","a","r","i","f","f","s">>
      [] w = "investment" -> <<"i","n","v","e","s","t","m","e","n","t">>
      [] w = "import" -> <<"i","m","p","o","r","t">>
      [] w = "imports" -> <<"i","m","p","o","r","t","s">>
      [] w = "exports" -> <<"e","x","p","o","r","t","s">>
      [] w = "top" -> <<"t","o","p">>
      [] w = "bottom" -> <<"b","o","t","t","o","m">>
      [] w = "highest" -> <<"h","i","g","h","e","s","t">>
      [] w = "lowest" -> <<"l","o","w","e","s","t">>
      [] w = "ranking" -> <<"r","a","n","k","i","n","g">>
      [] w = "kwh" -> <<"k","w","h">>
      [] w = "mwh" -> <<"m","w","h">>
      [] w = "gwh" -> <<"g","w","h">>
      [] w = "twh" -> <<"t","w","h">>
      [] w = "toe" -> <<"t","o","e">>
      [] w = "ktoe" -> <<"k","t","o","e">>
      [] w = "monthly" -> <<"m","o","n","t","h","l","y">>
      [] w = "quarterly" -> <<"q","u","a","r","t","e","r","l","y">>
      [] w = "annual" -> <<"a","n","n","u","a","l">>
      [] w = "annually" -> <<"a","n","n","u","a","l","l","y">>
      [] w = "italy" -> <<"i","t","a","l","y">>
      [] w = "portugal" -> <<"p","o","r","t","u","g","a","l">>
      [] w = "belgium" -> <<"b","e","l","g","i","u","m">>
      [] w = "netherlands" -> <<"n","e","t","h","e","r","l","a","n","d","s">>
      [] w = "luxembourg" -> <<"l","u","x","e","m","b","o","u","r","g">>
      [] w = "ireland" -> <<"i","r","e","l","a","n","d">>
      [] w = "denmark" -> <<"d","e","n","m","a","r","k">>
      [] w = "sweden" -> <<"s","w","e","d","e","n">>
      [] w = "finland" -> <<"f","i","n","l","a","n","d">>
      [] w = "poland" -> <<"p","o","l","a","n","d">>
      [] w = "czechia" -> <<"c","z","e","c","h","i","a">>
      [] w = "slovakia" -> <<"s","l","o","v","a","k","i","a">>
      [] w = "slovenia" -> <<"s","l","o","v","e","n","i","a">>
      [] w = "hungary" -> <<"h","u","n","g","a","r","y">>
      [] w = "austria" -> <<"a","u","s","t","r","i","a">>
      [] w = "romania" -> <<"r","o","m","a","n","i","a">>
      [] w = "bulgaria" -> <<"b","u","l","g","a","r","i","a">>
      [] w = "greece" -> <<"g","r","e","e","c","e">>
      [] w = "croatia" -> <<"c","r","o","a","t","i","a">>
      [] w = "estonia" -> <<"e","s","t","o","n","i","a">>
      [] w = "latvia" -> <<"l","a","t","v","i","a">>
      [] w = "lithuania" -> <<"l","i","t","h","u","a","n","i","a">>
      [] w = "malta" -> <<"m","a","l","t","a">>
      [] w = "cyprus" -> <<"c","y","p","r","u","s">>
      [] w = "europe" -> <<"e","u","r","o","p","e">>
      [] w = "eurostat" -> <<"e","u","r","o","s","t","a","t">>
      [] w = "eu" -> <<"e","u">>
      [] w = "eu27" -> <<"e","u","2","7">>
      [] w = "euro" -> <<"e","u","r","o">>
      [] w = "eurozone" -> <<"e","u","r","o","z","o","n","e">>
      [] w = "euro area" -> <<"e","u","r","o"," ","a","r","e","a">>
      [] w = "goodbye" -> <<"g","o","o","d","b","y","e">>
      [] w = "cheers" -> <<"c","h","e","e","r","s">>
      [] w = "gm" -> <<"g","m">>
      [] w = "gn" -> <<"g","n">>
      [] w = "wassup" -> <<"w","a","s","s","u","p">>
      [] w = "wazzup" -> <<"w","a","z","z","u","p">>
      [] w = "waddup" -> <<"w","a","d","d","u","p">>
      [] w = "whassup" -> <<"w","h","a","s","s","u","p">>
      [] w = "hallo" -> <<"h","a","l","l","o">>
      [] w = "morning" -> <<"m","o","r","n","i","n","g">>
      [] w = "afternoon" -> <<"a","f","t","e","r","n","o","o","n">>
      [] w = "day" -> <<"d","a","y">>
      [] w = "new" -> <<"n","e","w">>
      [] w = "see" -> <<"s","e","e">>
      [] w = "till" -> <<"t","i","l","l">>
      [] w = "tomorrow" -> <<"t","o","m","o","r","r","o","w">>
      [] w = "heyyy" -> <<"h","e","y","y","y">>
      [] w = "heyyyyy" -> <<"h","e","y","y","y","y","y">>
      [] w = "heyy" -> <<"h","e","y","y">>
      [] w = "well" -> <<"w","e","l","l">>
      [] w = "one" -> <<"o","n","e">>
      [] w = "out" -> <<"o","u","t">>
      [] w = "off" -> <<"o","f","f">>
      [] w = "got" -> <<"g","o","t">>
      [] w = "prcie" -> <<"p","r","c","i","e">>

Digits == { "0", "1", "2", "3", "4", "5", "6", "7", "8", "9" }
IsBlank(tok) == tok = " "
IsPunct(tok) == tok \in { "?", "!", ".", ",", "[", "]" }

\* The quotation marks of a text; the curly ones are written by their code point.
QuoteMarks ==
    [ curlyDouble |-> { "U+201C", "U+201D" }, curlySingle |-> { "U+2018", "U+2019" },
      straight |-> { "\"", "'" } ]

IsWord(tok) ==
    /\ ~IsBlank(tok) /\ ~IsPunct(tok)
    /\ tok \notin QuoteMarks.curlyDouble \cup QuoteMarks.curlySingle \cup QuoteMarks.straight

\* String.prototype.toLowerCase on one token.
toLowerCase(tok) == IF tok = "Hello" THEN "hello" ELSE tok

\* .replace(/[\u201C\u201D"']/g, '"') and then .replace(/[\u2018\u2019]/g, "'") on one
\* token.
replaceQuotes(tok) ==
    IF tok \in QuoteMarks.curlyDouble \cup { "\"", "'" } THEN "\""
    ELSE IF tok \in QuoteMarks.curlySingle THEN "'" ELSE tok

\* normalize: maps the quotation marks, lower-cases, collapses runs of whitespace
\* and trims, which leaves the words and marks of the text with single blanks
\* between words (the texts hold no diacritic).
normalize(raw) ==
    LET lowered == [i \in 1..Len(raw) |-> toLowerCase(replaceQuotes(raw[i]))]
    IN  SelectSeq(lowered, LAMBDA tok : ~IsBlank(tok))

\* ---------------------------------------------------------------------------
\* Matching.

W1(S) == { <<w>> : w \in S }

\* /\b(?:P)\b/ : some alternative of P occurs in t.
Has(t, P) == \E i \in 1..Len(t) : \E j \in i..Len(t) : SubSeq(t, i, j) \in P

\* /\b(A)\b.*\b(B)\b/ : an alternative of A, and later one of B.
HasThen(t, A, B) ==
    \E i \in 1..Len(t) : \E j \in i..Len(t) :
        /\ SubSeq(t, i, j) \in A
        /\ \E k \in (j+1)..Len(t) : \E l \in k..Len(t) : SubSeq(t, k, l) \in B

\* /^\s*(?:P)\b/ : t opens with an alternative of P.
StartsWith(t, P) == \E j \in 1..Len(t) : SubSeq(t, 1, j) \in P

\* /\b(?:P)$/ : t closes with an alternative of P.
EndsWith(t, P) == \E i \in 1..Len(t) : SubSeq(t, i, Len(t)) \in P

\* /^(?:P)[!.,\s]*$/ : an alternative of P, then nothing but "!", "." and ",".
OnlyThenMarks(t, P) ==
    \E j \in 1..Len(t) :
        /\ SubSeq(t, 1, j) \in P
        /\ \A k \in (j+1)..Len(t) : t[k] \in { "!", ".", "," }

endsWithQ(t) == Len(t) > 0 /\ t[Len(t)] = "?"

\* /(19|20)\d{2}/ as a whole word.
IsYear(tok) ==
    /\ IsWord(tok)
    /\ LET c == Spell(tok)
       IN  /\ Len(c) = 4
           /\ <<c[1], c[2]>> \in { <<"1","9">>, <<"2","0">> }
           /\ c[3] \in Digits /\ c[4] \in Digits
HasYear(t) == \E i \in 1..Len(t) : IsYear(t[i])

\* ---------------------------------------------------------------------------
\* Word lists of the preprocessor.  A Set is iterated in insertion order, so the
\* lists the dictionary is built from are sequences.
DEFAULT_DOMAIN_VOCAB ==
    << "energy", "electricity", "power", "gas", "natural", "lng", "lpg", "hydrogen", "biomass",
      "biofuel", "renewables", "renewable", "wind", "solar", "hydro", "oil", "petroleum", "coal",
      "lignite", "nuclear", "heat", "district", "heating", "consumption", "production",
      "generation", "demand", "supply", "emission", "emissions", "intensity", "efficiency",
      "capacity", "storage", "price", "prices", "tariff", "tariffs", "investment", "import",
      "imports", "export", "exports", "top", "bottom", "highest", "lowest", "ranking", "rank",
      "kwh", "mwh", "gwh", "twh", "toe", "ktoe", "monthly", "quarterly", "annual", "annually",
      "france", "spain", "germany", "italy", "portugal", "belgium", "netherlands", "luxembourg",
      "ireland", "denmark", "sweden", "finland", "poland", "czechia", "slovakia", "slovenia",
      "hungary", "austria", "romania", "bulgaria", "greece", "croatia", "estonia", "latvia",
      "lithuania", "malta", "cyprus", "europe", "eurostat", "eu", "eu27", "euro", "eurozone",
      "euro area" >>

INTERROGATIVES ==
    { "who", "what", "when", "where", "why", "how", "which" }

SOCIAL_TOKENS ==
    { "hi", "hello", "hey", "bye", "goodbye", "thanks", "thank", "cheers", "yo", "hiya", "gm",
      "gn", "sup", "wassup", "wazzup", "waddup", "whassup", "howdy", "heya", "heyo", "hallo",
      "morning", "afternoon", "evening", "day", "night", "new" }

EN_STOPWORDS ==
    << "a", "an", "the", "and", "or", "but", "if", "then", "else", "when", "where", "how", "why",
      "who", "which", "what", "i", "you", "he", "she", "it", "we", "they", "me", "him", "her",
      "them", "my", "your", "his", "her", "its", "our", "their", "to", "for", "from", "in", "on",
      "at", "by", "of", "with", "as", "is", "are", "was", "were", "be", "been", "being", "do",
      "does", "did", "can", "could", "should", "would", "may", "might", "will", "shall", "this",
      "that", "these", "those", "there", "here", "now", "then", "not", "no", "yes", "ok", "okay",
      "please" >>

EN_BASE_SMALL ==
    << "hello", "hi", "hey", "bye", "thanks", "thank", "help", "download", "export", "show",
      "plot", "chart", "map", "table", "compare", "definition", "source", "frequency", "latest",
      "trend", "value", "values", "increase", "decrease", "error", "crash", "reset", "filter",
      "select", "update", "open", "close", "share", "explain", "define", "calculate", "generate",
      "summarize", "rank", "who", "what", "when", "where", "why", "how", "which" >>


\* Tokens the user's chat inputs are made of: words the documentation of the
\* spell corrector names, elongated greetings, a misspelt domain word.
ChatWords ==
    { "see", "you", "till", "tomorrow", "well", "one", "out", "off", "got", "heyyy", "heyyyyy",
      "heyy", "what", "evening", "prcie", "helo", "url", "email", "?" }

\* The inputs: every token alone, and the sentences the documentation of the
\* spell corrector gives.
ChatTexts ==
    { <<w>> : w \in ChatWords }
    \cup { << "see", "you" >>, << "till", "tomorrow" >>, << "what", "prcie", "?" >>,
           << "well", "got", "one" >>, << "https://ec.europa.eu" >>,
           << "see", "https://ec.europa.eu" >>, << "info@ec.europa.eu" >> }

\* ---------------------------------------------------------------------------
\* Damerau-Levenshtein distance (levenshtein), row by row.  A row holds
\* dp[i][0..n] at positions 1..n+1.
Min2(x, y) == IF x <= y THEN x ELSE y

RECURSIVE LevFill(_, _, _, _, _, _)
LevFill(a, b, i, acc, prev1, prev2) ==
    LET j == Len(acc)
    IN  IF j > Len(b) THEN acc
        ELSE LET cost == IF a[i] = b[j] THEN 0 ELSE 1
                 base == Min2(Min2(prev1[j+1] + 1, acc[j] + 1), prev1[j] + cost)
                 cell == IF i > 1 /\ j > 1 /\ a[i] = b[j-1] /\ a[i-1] = b[j]
                         THEN Min2(base, prev2[j-1] + 1)
                         ELSE base
             IN  LevFill(a, b, i, Append(acc, cell), prev1, prev2)

RECURSIVE LevRows(_, _, _, _, _)
LevRows(a, b, i, prev1, prev2) ==
    IF i > Len(a) THEN prev1
    ELSE LevRows(a, b, i + 1, LevFill(a, b, i, <<i>>, prev1, prev2), prev1)

levenshtein(a, b) ==
    IF Len(a) = 0 THEN Len(b)
    ELSE IF Len(b) = 0 THEN Len(a)
    ELSE LET row0 == [j \in 1..(Len(b) + 1) |-> j - 1]
         IN  LevRows(a, b, 1, row0, row0)[Len(b) + 1]

\* shortTokenize: the words of the text, at most 64 of them.
shortTokenize(t) ==
    LET words == SelectSeq(t, IsWord)
    IN  SubSeq(words, 1, Min2(Len(words), 64))

\* The two functions the binding `fuzzyTokenHit` of data/patterns.ts can hold:
\* its initial value () => false, and the function intentDetection.ts installs.
fuzzyTokenHitStub(t, vocab, maxDist, minLen) == FALSE

\* The vocabulary of the fuzzy greeting pattern (PATTERNS.greeting, last entry).
FuzzyGreetingVocab == { "hi", "hello", "hey", "howdy", "hiya", "yo", "heya", "heyo", "sup" }

\* levenshtein between the words of the model, computed once.
SpelledWords ==
    { toLowerCase(w) : w \in { x \in UNION Pools : IsWord(x) } }
    \cup { w \in UNION { Range(x) : x \in Sentences } : IsWord(w) } \cup FuzzyGreetingVocab
    \cup Range(EN_STOPWORDS) \cup Range(EN_BASE_SMALL) \cup Range(DEFAULT_DOMAIN_VOCAB)
    \cup { w \in ChatWords : IsWord(w) }

Distance ==
    [a \in SpelledWords |-> [b \in FuzzyGreetingVocab |-> levenshtein(Spell(a), Spell(b))]]

fuzzyTokenHitImpl(t, vocab, maxDist, minLen) ==
    LET all == shortTokenize(t)
        toks == SelectSeq(all, LAMBDA tok : Len(Spell(tok)) >= minLen /\ Len(Spell(tok)) <= 10)
    IN  \E k \in 1..Len(toks) : \E v \in vocab : Distance[toks[k]][v] <= maxDist

\* setFuzzyTokenHit(fn): the new value of the binding.
setFuzzyTokenHit(fn) == fn

callFuzzyTokenHit(binding, t, vocab, maxDist, minLen) ==
    IF binding = "impl" THEN fuzzyTokenHitImpl(t, vocab, maxDist, minLen)
    ELSE fuzzyTokenHitStub(t, vocab, maxDist, minLen)

\* ---------------------------------------------------------------------------
\* Lexicon (data/lexicon.ts). A phrase is the sequence of its words; a vocabulary
\* list is the set of its phrases.
ENERGY_TERMS ==
    { <<"energy", "balance">>, <<"gross", "inland", "consumption">>, <<"final", "energy",
      "consumption">>, <<"primary", "energy">>, <<"electricity">>, <<"power">>, <<"gas">>,
      <<"natural", "gas">>, <<"renewables">>, <<"renewable">>, <<"wind">>, <<"solar">>,
      <<"hydro">>, <<"oil">>, <<"petroleum">>, <<"coal">>, <<"lignite">>, <<"biomass">>,
      <<"biofuel">>, <<"heat">>, <<"district", "heating">>, <<"hydrogen">>, <<"nuclear">>,
      <<"emissions">>, <<"emission">>, <<"co2">>, <<"ghg">>, <<"greenhouse", "gas">>, <<"price">>,
      <<"prices">>, <<"tariff">>, <<"tariffs">>, <<"consumption">>, <<"production">>,
      <<"generation">>, <<"imports">>, <<"import">>, <<"exports">>, <<"export">>, <<"net",
      "imports">>, <<"storage">>, <<"stocks">>, <<"capacity">>, <<"load">>, <<"demand">>,
      <<"peak">>, <<"efficiency">>, <<"intensity">>, <<"kwh">>, <<"mwh">>, <<"gwh">>, <<"twh">>,
      <<"toe">>, <<"ktoe">>, <<"nrg">>, <<"eurostat">>, <<"dataset">>, <<"table">> }

MEASURE_TERMS ==
    { <<"consumption">>, <<"production">>, <<"generation">>, <<"price">>, <<"prices">>,
      <<"tariff">>, <<"tariffs">>, <<"emission">>, <<"emissions">>, <<"capacity">>, <<"demand">>,
      <<"intensity">>, <<"efficiency">>, <<"load">>, <<"stock">>, <<"stocks">>, <<"storage">> }

VIZ_TERMS ==
    { <<"show">>, <<"plot">>, <<"chart">>, <<"visualise">>, <<"visualize">>, <<"draw">>,
      <<"map">>, <<"graph">>, <<"heatmap">>, <<"bar", "chart">>, <<"line", "chart">>, <<"pie">>,
      <<"scatter">>, <<"choropleth">>, <<"dashboard">>, <<"table">>, <<"pivot">> }

DOWNLOAD_TERMS ==
    { <<"download">>, <<"export">>, <<"save", "as">>, <<"csv">>, <<"xlsx">>, <<"xls">>,
      <<"json">>, <<"png">>, <<"jpg">>, <<"jpeg">>, <<"svg">>, <<"pdf">>, <<"api">>, <<"share">>,
      <<"embed">>, <<"link">> }

FILTER_TERMS ==
    { <<"country">>, <<"eu">>, <<"eu27">>, <<"member", "state">>, <<"sector">>, <<"nace">>,
      <<"household">>, <<"households">>, <<"industry">>, <<"transport">>, <<"services">>,
      <<"residential">>, <<"fuel">>, <<"product">>, <<"unit">>, <<"per", "capita">>, <<"nuts">>,
      <<"nuts2">>, <<"nuts3">>, <<"region">>, <<"by", "country">>, <<"by", "sector">> }

TIME_KEYWORDS ==
    { <<"monthly">>, <<"quarterly">>, <<"annual">>, <<"annualy">>, <<"annually">>, <<"trend">>,
      <<"over", "time">>, <<"ytd">>, <<"last", "year">>, <<"this", "year">>, <<"latest">>,
      <<"most", "recent">>, <<"current">>, <<"q1">>, <<"q2">>, <<"q3">>, <<"q4">>, <<"seasonal">>,
      <<"winter">>, <<"summer">>, <<"spring">>, <<"autumn">>, <<"fall">> }

METADATA_TERMS ==
    { <<"definition">>, <<"metadata">>, <<"methodology">>, <<"methodologies">>, <<"calculated">>,
      <<"computed">>, <<"source">>, <<"data", "source">>, <<"dataset">>, <<"table", "code">>,
      <<"frequency">>, <<"release">>, <<"last", "update">>, <<"revision">> }

COMPARE_TERMS ==
    { <<"compare">>, <<"vs">>, <<"versus">>, <<"difference", "between">>, <<"rank">>,
      <<"ranking">>, <<"top">>, <<"bottom">>, <<"lowest">>, <<"highest">> }

HELP_TERMS ==
    { <<"help">>, <<"help", "me">>, <<"can", "you", "help">>, <<"how", "to", "use">>, <<"how",
      "do", "i">>, <<"how", "do", "you">>, <<"what", "can", "you", "do">>, <<"commands">>,
      <<"instructions">>, <<"guide">>, <<"guidelines">>, <<"manual">>, <<"examples">>, <<"show",
      "me">>, <<"usage">>, <<"need", "help">>, <<"need", "assistance">>, <<"support">>, <<"how",
      "does", "this", "work">>, <<"how", "it", "works">> }

GREETING_BASE ==
    { <<"hi">>, <<"hello">>, <<"hey">>, <<"howdy">>, <<"hiya">>, <<"yo">>, <<"greetings">>,
      <<"welcome">>, <<"salutations">>, <<"sup">>, <<"heya">>, <<"heyo">>, <<"gm">>, <<"ga">>,
      <<"ge">>, <<"gday">>, <<"g'day">>, <<"g", "day">>, <<"gidday">>, <<"good", "morning">>,
      <<"good", "afternoon">>, <<"good", "day">>, <<"morning">>, <<"afternoon">>, <<"evening">>,
      <<"hi", "there">>, <<"hello", "there">>, <<"hey", "there">>, <<"hi", "all">>, <<"hi",
      "everyone">>, <<"hi", "folks">>, <<"hi", "team">>, <<"hi", "guys">>, <<"hello", "all">>,
      <<"hello", "everyone">>, <<"hello", "folks">>, <<"hello", "team">>, <<"hello", "guys">>,
      <<"hey", "all">>, <<"hey", "everyone">>, <<"hey", "folks">>, <<"hey", "team">>, <<"hey",
      "guys">>, <<"hey", "yall">>, <<"hey", "y'all">>, <<"how's", "it", "going">>, <<"hows", "it",
      "going">>, <<"how", "is", "it", "going">>, <<"how", "s", "it", "going">>, <<"how", "are",
      "you">>, <<"how", "are", "ya">>, <<"how", "are", "yall">>, <<"how", "are", "y'all">>,
      <<"how", "are", "u">>, <<"how", "are", "you", "doing">>, <<"how", "you", "doing">>, <<"how",
      "are", "things">>, <<"how", "goes", "it">>, <<"how's", "everything">>, <<"hows",
      "everything">>, <<"how", "s", "everything">>, <<"how", "ya", "doing">>, <<"how", "ya",
      "doin">>, <<"how", "you", "doin">>, <<"how", "u", "doing">>, <<"what's", "up">>, <<"whats",
      "up">>, <<"what", "s", "up">>, <<"wassup">>, <<"wazzup">>, <<"whassup">>, <<"waddup">>,
      <<"what", "up">>, <<"what's", "good">>, <<"whats", "good">>, <<"what", "s", "good">>,
      <<"what's", "new">>, <<"whats", "new">>, <<"what", "s", "new">>, <<"what's", "happening">>,
      <<"whats", "happening">>, <<"what", "s", "happening">>, <<"what's", "happenin">>, <<"whats",
      "happenin">>, <<"what's", "poppin">>, <<"whats", "poppin">>, <<"what", "s", "poppin">>,
      <<"long", "time", "no", "see">>, <<"it's", "been", "a", "while">>, <<"its", "been", "a",
      "while">>, <<"it", "s", "been", "a", "while">>, <<"nice", "to", "see", "you">> }

THANKS_BASE ==
    { <<"thanks">>, <<"thank">>, <<"thank", "you">>, <<"thank", "u">>, <<"thx">>, <<"ty">>,
      <<"tnx">>, <<"tks">>, <<"thanks", "a", "lot">>, <<"thanks", "so", "much">>, <<"thanks",
      "very", "much">>, <<"thank", "you", "so", "much">>, <<"thank", "you", "very", "much">>,
      <<"many", "thanks">>, <<"much", "obliged">>, <<"appreciate">>, <<"appreciate", "it">>,
      <<"really", "appreciate">>, <<"greatly", "appreciate">>, <<"cheers">>, <<"props">>, <<"big",
      "thanks">>, <<"big", "thank", "you">> }

FAREWELL_BASE ==
    { <<"bye">>, <<"goodbye">>, <<"farewell">>, <<"adieu">>, <<"cheerio">>, <<"later">>,
      <<"peace">>, <<"ciao">>, <<"cya">>, <<"c", "ya">>, <<"ttyl">>, <<"gtg">>, <<"g2g">>,
      <<"gotta", "go">>, <<"got", "to", "go">>, <<"gotta", "run">>, <<"got", "to", "run">>,
      <<"brb">>, <<"bbl">>, <<"bb">>, <<"bai">>, <<"buh-bye">>, <<"buhbye">>, <<"good", "night">>,
      <<"goodnight">>, <<"gn">>, <<"bye", "bye">>, <<"bye-bye">>, <<"byebye">>, <<"see", "you">>,
      <<"see", "ya">>, <<"see", "you", "later">>, <<"see", "ya", "later">>, <<"see", "you",
      "soon">>, <<"see", "ya", "soon">>, <<"see", "you", "tomorrow">>, <<"see", "ya",
      "tomorrow">>, <<"see", "you", "around">>, <<"see", "ya", "around">>, <<"catch", "you",
      "later">>, <<"catch", "ya", "later">>, <<"talk", "to", "you", "later">>, <<"talk", "to",
      "ya", "later">>, <<"take", "care">>, <<"have", "a", "good", "day">>, <<"have", "a", "great",
      "day">>, <<"have", "a", "nice", "day">>, <<"have", "a", "good", "one">>, <<"have", "a",
      "great", "one">>, <<"have", "a", "nice", "one">>, <<"have", "a", "wonderful", "day">>,
      <<"have", "a", "good", "night">>, <<"until", "next", "time">>, <<"until", "we", "meet",
      "again">>, <<"till", "next", "time">>, <<"until", "later">>, <<"till", "tomorrow">>,
      <<"laters">>, <<"l8r">>, <<"laterz">>, <<"later", "gator">>, <<"catch", "you", "on", "the",
      "flip", "side">>, <<"i", "m", "out">>, <<"i'm", "out">>, <<"im", "out">>, <<"i", "m",
      "off">>, <<"i'm", "off">>, <<"im", "off">>, <<"i", "m", "leaving">>, <<"i'm", "leaving">>,
      <<"im", "leaving">>, <<"i", "m", "going">>, <<"i'm", "going">>, <<"im", "going">>,
      <<"gotta", "bounce">>, <<"got", "to", "bounce">>, <<"good", "luck">>, <<"best", "wishes">>,
      <<"all", "the", "best">>, <<"take", "it", "easy">>, <<"stay", "safe">>, <<"be", "well">>,
      <<"be", "safe">> }

\* AMBIGUOUS_BASE is scanned in order by score (first phrase found wins).
AMBIGUOUS_BASE ==
    << <<"good", "evening">>, <<"night">>, <<"nite">> >>

GROUP_ADDRESS_WORDS ==
    { <<"everyone">>, <<"folks">>, <<"all">>, <<"team">>, <<"guys">>, <<"yall">>, <<"y'all">> }

FAREWELL_INDICATORS ==
    { <<"goodbye">>, <<"bye">>, <<"see", "you">>, <<"see", "ya">>, <<"take", "care">>,
      <<"later">>, <<"leaving">>, <<"going">> }

COUNTRY_NAMES ==
    { <<"eu">>, <<"eu27">>, <<"euro", "area">>, <<"european", "union">>, <<"belgium">>,
      <<"france">>, <<"germany">>, <<"netherlands">>, <<"luxembourg">>, <<"spain">>,
      <<"portugal">>, <<"italy">>, <<"ireland">>, <<"denmark">>, <<"sweden">>, <<"finland">>,
      <<"poland">>, <<"czechia">>, <<"czech", "republic">>, <<"slovakia">>, <<"slovenia">>,
      <<"hungary">>, <<"austria">>, <<"romania">>, <<"bulgaria">>, <<"greece">>, <<"croatia">>,
      <<"estonia">>, <<"latvia">>, <<"lithuania">>, <<"malta">>, <<"cyprus">> }

ISO2 ==
    { <<"at">>, <<"be">>, <<"bg">>, <<"hr">>, <<"cy">>, <<"cz">>, <<"dk">>, <<"ee">>, <<"fi">>,
      <<"fr">>, <<"de">>, <<"el">>, <<"gr">>, <<"hu">>, <<"ie">>, <<"it">>, <<"lv">>, <<"lt">>,
      <<"lu">>, <<"mt">>, <<"nl">>, <<"pl">>, <<"pt">>, <<"ro">>, <<"sk">>, <<"si">>, <<"es">>,
      <<"se">> }

\* ---------------------------------------------------------------------------
\* Precompiled matchers (data/precompiledMatchers.ts).  wordMatcher(list) is
\* /\b(?:a|b|...)\b/u, makeGreetingRegex(list) the same with \s+ between the
\* words of a phrase; on normalized text both hold when a listed phrase occurs.
wordMatcher(t, list) == Has(t, list)

\* Flags of the regular expressions makeGreetingRegex builds; the alternative adds
\* the g flag, under which test() keeps its position in lastIndex.
makeGreetingRegexFlags_global == { "g", "i", "u" }

makeGreetingRegexFlags == { "i", "u" }

\* RegExp.prototype.test on a matcher with alternatives P whose lastIndex is li:
\* without the g flag the search starts at 0 and lastIndex is left alone; with it
\* the search starts at lastIndex, which becomes the end of the match found, or 0.
\* (Of several alternatives at one place the shortest: the lists put a phrase
\* before its extensions.)
RegExpTest(flags, li, t, P) ==
    IF "g" \notin flags
    THEN [hit |-> Has(t, P), lastIndex |-> li]
    ELSE LET starts == { i \in (li + 1)..Len(t) : \E j \in i..Len(t) : SubSeq(t, i, j) \in P }
         IN  IF starts = {} THEN [hit |-> FALSE, lastIndex |-> 0]
             ELSE LET i == CHOOSE x \in starts : \A y \in starts : x <= y
                      j == CHOOSE x \in i..Len(t) :
                               /\ SubSeq(t, i, x) \in P
                               /\ \A y \in i..(x - 1) : SubSeq(t, i, y) \notin P
                  IN  [hit |-> TRUE, lastIndex |-> j]

\* A pattern's contribution: weight when it matches (a functional pattern's
\* value when positive), 0 otherwise.
W(matches, weight) == IF matches THEN weight ELSE 0

Letters ==
    { "a", "b", "c", "d", "e", "f", "g", "h", "i", "j", "k", "l", "m", "n", "o", "p", "q",
      "r", "s", "t", "u", "v", "w", "x", "y", "z" }

\* /\b([a-z][a-z]+)\b/ and /\b\d+\b/ on one token.
IsAlphaWord(tok) ==
    IsWord(tok) /\ Len(Spell(tok)) >= 2 /\ \A k \in 1..Len(Spell(tok)) : Spell(tok)[k] \in Letters
IsNumber(tok) ==
    IsWord(tok) /\ Len(Spell(tok)) >= 1 /\ \A k \in 1..Len(Spell(tok)) : Spell(tok)[k] \in Digits

\* Word classes several regular expressions of PATTERNS share.
WordClasses ==
    [ TroubleVerbs |->
          { "work", "load", "function", "start", "open", "connect", "display", "show", "appear", "run" },
      QueryEnergyWords |->
          W1({ "electricity", "gas", "renewable", "renewables", "wind", "solar", "hydro", "oil",
          "petroleum", "coal", "lignite", "biomass", "biofuel", "heat", "hydrogen", "nuclear",
          "emission", "emissions", "co2", "ghg", "price", "prices", "tariff", "tariffs",
          "consumption", "production", "generation", "capacity", "demand" })
          \cup { <<"natural", "gas">> },
      QueryTradeAndUnits |->
          W1({ "import", "imports", "export", "exports", "kwh", "mwh", "gwh", "twh", "toe", "ktoe" }),
      FileTypes |->
          { "csv", "xls", "xlsx", "json", "png", "jpg", "jpeg", "svg", "pdf" },
      Hows |->
          { "hows", "how's" },
      Whats |->
          { "whats", "what's" },
      Im |->
          { "im", "i'm" } ]

Interrogatives == { "who", "what", "when", "where", "why", "how", "which" }

\* The alternations of the regular expressions of PATTERNS, per intent: each is
\* the set of token runs its regex matches as whole words.
Alternatives ==
    [ troubleshooting |->
        [ a0 |->
            { <<d, v>> : d \in { "doesnt", "doesn't", "doesn\"t", "does'nt", "does\"nt",
            "does'n't", "does\"n\"t", "does'n\"t", "does\"n't" },
            v \in WordClasses.TroubleVerbs }
            \cup { <<"does", "not", v>> : v \in WordClasses.TroubleVerbs },
          a1 |->
            { <<"does", "t", v>> : v \in WordClasses.TroubleVerbs },
          a2 |->
            W1({ "cant", "can't", "can\"t", "cannot", "fail", "failed", "fails", "error",
            "exception", "crash", "crashed", "crashes", "timeout", "broken", "bug",
            "slow", "stuck", "unauthorized", "problem", "issue" })
            \cup { <<"load", "issue">>, <<"loading", "issue">>, <<"permission", "denied">>,
            <<"not", "working">>, <<"won't", "work">>, <<"doesn't", "work">> } ],
      download_request |->
        [ a1 |->
            W1({ "save", "export", "download" }),
          a1b |->
            W1(WordClasses.FileTypes),
          a2 |->
            W1({ "api", "endpoint", "link", "url" }),
          a3 |->
            W1({ "http://host/file.csv", "https://host/file.csv" }) ],
      viz_request |->
        [ a1 |->
            W1({ "can", "could", "would", "please", "kindly" }),
          a1b |->
            W1({ "show", "plot", "chart", "visualise", "visualize", "draw", "map", "graph",
            "heatmap", "pie", "scatter", "choropleth", "dashboard", "table", "pivot" })
            \cup { <<"bar", "chart">>, <<"line", "chart">> } ],
      data_query |->
        [ a0 |->
            W1({ "what", "latest", "evolution", "trend", "increase", "decrease" })
            \cup { <<"how", "much">>, <<"how", "many">>, <<"show", "me">>,
            <<"give", "me">>, <<"value", "of">>, <<"time", "series">> },
          a0b |->
            WordClasses.QueryEnergyWords \cup WordClasses.QueryTradeAndUnits ],
      filter_change |->
        [ a3 |->
            { <<p, w>> : p \in { "by", "for", "in" },
            w \in { "country", "sector", "fuel", "product", "unit", "nace",
            "household", "households", "industry", "transport",
            "services", "residential", "region", "nuts", "nuts0",
            "nuts1", "nuts2", "nuts3", "nuts4", "nuts5", "nuts6",
            "nuts7", "nuts8", "nuts9" } },
          a4 |->
            { <<"percapita">>, <<"per-capita">>, <<"per", "capita">> },
          a5 |->
            { <<"eu27">>, <<"eu-27">>, <<"eu", "27">> } ],
      time_change |->
        [ a4 |->
            W1({ "january", "february", "march", "april", "may", "june", "july", "august",
            "september", "october", "november", "december", "jan", "feb", "mar",
            "apr", "jun", "jul", "aug", "sep", "sept", "oct", "nov", "dec" }) ],
      metadata_request |->
        [ a1 |->
            { <<"how", v>> : v \in { "is", "are", "was", "were" } },
          a1b |->
            W1({ "calculated", "computed", "defined", "measured", "collected", "estimated",
            "compiled", "aggregated", "imputed" }),
          a2 |->
            { <<"where", "does">>, <<"what", "is", "the", "source">>,
            <<"data", "source">> },
          a3 |->
            { <<"definition", "of">> } ],
      compare_request |->
        [ a1 |->
            { <<"compare">> } ],
      help |->
        [ a1 |->
            { <<"examples">> } ],
      greeting |->
        [ a1 |->
            { <<"good", w>> : w \in { "morning", "afternoon", "evening", "day" } },
          a2 |->
            W1({ "morning", "afternoon", "evening", "night", "day" }),
          a3 |->
            W1({ "gm", "ga", "ge", "gday", "g'day", "gidday" }),
          a4 |->
            { <<h, "there">> : h \in { "hi", "hello", "hey" } },
          a6 |->
            { <<h, "it", "going">> : h \in WordClasses.Hows } \cup { <<h, "things">> : h \in WordClasses.Hows }
            \cup { <<h, "everything">> : h \in WordClasses.Hows }
            \cup { <<"how", "are", y>> : y \in { "you", "ya", "yall", "y'all" } }
            \cup { <<"how", "you", "doing">>, <<"how", "ya", "doin">>, <<"what", "up">> }
            \cup { <<w, x>> : w \in WordClasses.Whats,
            x \in { "up", "new", "good", "happening", "happenin", "poppin" } }
            \cup W1({ "wasup", "wassup", "wazzup", "waddup" }),
          a7 |->
            { <<"long", "time", "no", "see">> }
            \cup { <<i, "been", "a", "while">> : i \in { "its", "it's" } },
          a8 |->
            { <<"dear">>, <<"to", "whom", "it", "may", "concern">> },
          a9 |->
            W1({ "U+1F44B", "U+1F60A", "U+1F642", "U+1F600", "U+1F603", "U+1F601",
            "U+1F604", "U+1F917" }) ],
      farewell |->
        [ a1 |->
            { <<"good", "night">>, <<"good", "evening">> },
          a2 |->
            { <<"see", "you">>, <<"see", "ya">> },
          a3 |->
            { <<"take", "care">>, <<"take", "it", "easy">>, <<"stay", "safe">>,
            <<"be", "well">>, <<"be", "safe">> },
          a4 |->
            { <<"have", "a", g, d>> : g \in { "good", "great", "nice", "wonderful", "lovely" },
            d \in { "day", "night", "one", "time", "weekend" } },
          a5 |->
            { <<i, w>> : i \in WordClasses.Im, w \in { "out", "off", "leaving", "going" } }
            \cup { <<"gotta", w>> : w \in { "go", "run", "bounce" } }
            \cup { <<"got", "to", w>> : w \in { "go", "run", "bounce" } },
          a6 |->
            W1({ "gtg", "g2g", "ttyl", "brb", "bbl", "cya" }) \cup { <<"c", "ya">> },
          a7 |->
            { <<u, "next", "time">> : u \in { "until", "till" } }
            \cup { <<u, "we", "meet", "again">> : u \in { "until", "till" } }
            \cup { <<u, w>> : u \in { "until", "till" }, w \in { "later", "tomorrow" } },
          a8 |->
            { <<"good", "luck">>, <<"best", "wishes">>, <<"all", "the", "best">> } ],
      thanks |->
        [ a1 |->
            { <<"appreciate", "it">>, <<"appreciate", "that">> } ],
      affirmative |->
        [ a0 |->
            W1({ "yes", "yeah", "yep", "yup", "yea", "aye", "yah", "okay", "ok", "alright",
            "certainly", "definitely", "absolutely", "indeed", "correct", "right",
            "true", "exactly" }) \cup { <<"all", "right">> },
          a1 |->
            { <<"why", "not">>, <<"sounds", "good">>, <<"of", "course">>, <<"for", "sure">>,
            <<"you", "bet">>, <<"go", "ahead">> },
          a2 |->
            { <<"i", "agree">>, <<"i", "concur">>, <<"i", "think", "agree">>,
            <<"i", "think", "concur">>, <<"agreed">> },
          a3 |->
            W1({ "k", "kk", "ya", "mhm" }) \cup { <<"uh", "huh">>, <<"mm", "hmm">> },
          a4 |->
            { <<"that", "works">>, <<"makes", "sense">>, <<"fine">>, <<"count", "me", "in">>,
            <<"sign", "me", "up">> }
            \cup { <<l, "it">> : l \in { "lets", "let's" } }
            \cup { <<l, "do", "it">> : l \in { "lets", "let's" } }
            \cup { <<l, w>> : l \in { "lets", "let's" }, w \in { "go", "start" } }
            \cup { <<i, "in">> : i \in WordClasses.Im },
          a5 |->
            { <<"roger">>, <<"copy", "that">>, <<"got", "it">>, <<"understood">> },
          a6 |->
            { <<s, g>> : s \in { "sounds", "looks", "seems" },
            g \in { "good", "great", "fine", "perfect", "right" } },
          a7 |->
            W1({ "approved", "confirmed", "accepted" }),
          a8 |->
            W1({ "yes", "yeah", "ok", "okay", "sure", "yep", "definitely",
            "absolutely", "k", "ya" }),
          a9 |->
            { <<"thumbs", "up">> } ],
      negative |->
        [ a0 |->
            W1({ "no", "nope", "nah", "nay", "never", "refuse", "reject", "deny", "decline",
            "false", "incorrect", "wrong", "negative" }),
          a1 |->
            W1({ "cant", "can't", "wont", "won't" }),
          a2 |->
            { <<d, "think", "so">> : d \in { "dont", "don't" } },
          a3 |->
            { <<"disagree">>, <<"not", "really">>, <<"absolutely", "not">>,
            <<"definitely", "not">>, <<"no", "way">> },
          a4 |->
            { <<"maybe", "later">>, <<"no", "thanks">>, <<"not", "interested">>,
            <<"not", "now">>, <<"pass">>, <<"sorry">>, <<"skip">> },
          a5 |->
            { <<"never", "mind">>, <<"nevermind">>, <<"forget", "it">>, <<"nuh", "uh">>,
            <<"nada">>, <<"no", "sir">>, <<"no", "maam">> }
            \cup { <<i, "not">> : i \in WordClasses.Im }
            \cup { <<i, "rather", "not">> : i \in { "id", "i'd" } },
          a6 |->
            { <<d, "know">> : d \in { "dont", "don't" } }
            \cup { <<c, "say">> : c \in { "cant", "can't" } }
            \cup { <<"not", "sure">>, <<"unsure">> },
          a7 |->
            W1({ "no", "nope", "nah", "not" })
            \cup { <<d, "think", "so">> : d \in { "dont", "don't" } },
          a8 |->
            { <<"not">> },
          a9 |->
            { <<"thumbs", "down">> } ],
      command |->
        [ a0 |->
            W1({ "show", "plot", "chart", "visualise", "visualize", "draw", "map",
            "graph", "table", "list", "filter", "set", "change", "update",
            "select", "open", "close", "reset", "download", "export", "share",
            "explain", "define", "calculate", "generate", "summarize", "rank" }),
          a1 |->
            W1({ "please", "kindly" }),
          a2 |->
            W1({ "lets", "let's" }),
          a3 |->
            { <<"i", "need", "you", "to">>, <<"i", "want", "you", "to">>,
            <<"make", "sure", "to">>, <<"be", "sure", "to">> } ],
      question |->
        [ a1 |->
            W1(Interrogatives \cup { "can", "could", "do", "does", "is", "are", "will",
            "would", "should", "may", "might", "have", "has",
            "did" }),
          a2 |->
            { <<"any", "idea">>, <<"could", "you", "tell", "me">>, <<"do", "you", "know">>,
            <<"i", "wonder">>, <<"is", "it", "possible">> } ],
      smalltalk |->
        [ a0 |->
            { <<"nice", "to", "meet", "you">>, <<"nice", "to", "see", "you">>,
            <<"pleased", "to", "meet", "you">> },
          a1 |->
            { <<"how", "do", "you", "do">> } ] ]

Patterns_troubleshooting(t) ==
    << W(Has(t, Alternatives.troubleshooting.a0), 35),
       W(Has(t, Alternatives.troubleshooting.a1), 35),
       W(Has(t, Alternatives.troubleshooting.a2), 32) >>

Patterns_download_request(t) ==
    << W(wordMatcher(t, DOWNLOAD_TERMS), 26),
       W(HasThen(t, Alternatives.download_request.a1, Alternatives.download_request.a1b), 30),
       W(Has(t, Alternatives.download_request.a2), 16),
       \* /\bhttps?:\/\/\S+\.(csv|...)\b/ : a token that is the URL of such a file
       W(Has(t, Alternatives.download_request.a3), 30) >>

Patterns_viz_request(t) ==
    << W(wordMatcher(t, VIZ_TERMS), 27),
       W(HasThen(t, Alternatives.viz_request.a1, Alternatives.viz_request.a1b), 22),
       W(wordMatcher(t, ENERGY_TERMS) /\ wordMatcher(t, VIZ_TERMS), 31) >>

Patterns_data_query(t) ==
    << W(HasThen(t, Alternatives.data_query.a0, Alternatives.data_query.a0b), 26),
       W(endsWithQ(t) /\ wordMatcher(t, ENERGY_TERMS), 22),
       W(wordMatcher(t, ENERGY_TERMS), 9),
       W(wordMatcher(t, ENERGY_TERMS) /\ wordMatcher(t, MEASURE_TERMS), 24),
       W(wordMatcher(t, ENERGY_TERMS)
           /\ (wordMatcher(t, COUNTRY_NAMES) \/ wordMatcher(t, FILTER_TERMS)), 18),
       W(HasThen(t, WordClasses.QueryEnergyWords,
                 W1({ "consumption", "production", "price", "prices", "emission", "emissions",
                      "capacity", "generation", "demand", "intensity", "efficiency" })), 20) >>

Patterns_filter_change(t) ==
    << W(wordMatcher(t, FILTER_TERMS), 19),
       W(wordMatcher(t, COUNTRY_NAMES), 19),
       W(wordMatcher(t, ISO2), 16),
       W(Has(t, Alternatives.filter_change.a3), 21),
       W(Has(t, Alternatives.filter_change.a4), 16),
       W(Has(t, Alternatives.filter_change.a5), 14) >>

Patterns_time_change(t) ==
    << W(HasYear(t), 18),
       W(\E i \in 1..(Len(t) - 3) :
             /\ t[i] \in { "from", "since", "between" } /\ IsYear(t[i+1])
             /\ t[i+2] \in { "to", "and", "-" } /\ IsYear(t[i+3]), 23),
       W(\E i \in 1..(Len(t) - 1) :
             \/ t[i] \in { "q1", "q2", "q3", "q4" } /\ IsYear(t[i+1])
             \/ IsYear(t[i]) /\ t[i+1] \in { "q1", "q2", "q3", "q4" }, 20),
       W(wordMatcher(t, TIME_KEYWORDS), 18),
       W(Has(t, Alternatives.time_change.a4), 14) >>

Patterns_metadata_request(t) ==
    << W(wordMatcher(t, METADATA_TERMS), 29),
       W(HasThen(t, Alternatives.metadata_request.a1, Alternatives.metadata_request.a1b), 28),
       W(Has(t, Alternatives.metadata_request.a2), 20),
       W(Has(t, Alternatives.metadata_request.a3), 22) >>

Patterns_compare_request(t) ==
    << W(wordMatcher(t, COMPARE_TERMS), 28),
       W(StartsWith(t, Alternatives.compare_request.a1), 8),
       W(\E i \in 1..Len(t) : \E j \in (i+1)..Len(t) : \E k \in (j+1)..Len(t) :
             t[i] \in { "compare", "vs", "versus" } /\ IsAlphaWord(t[j]) /\ IsAlphaWord(t[k]), 20),
       W(\E i \in 1..(Len(t) - 1) :
             t[i] \in { "top", "bottom", "lowest", "highest" } /\ IsNumber(t[i+1]), 20) >>

Patterns_help(t) ==
    << W(wordMatcher(t, HELP_TERMS), 22),
       W(\/ Has(t, Alternatives.help.a1)
         \/ \E i \in 1..(Len(t) - 4) : \E k \in (i+4)..Len(t) :
               /\ SubSeq(t, i, i + 2) = <<"how", "do", "i">>
               /\ IsWord(t[i+3]) /\ t[k] \in { "find", "get", "see" }, 16) >>

\* Words with an optional apostrophe, as /how(?:'|')?s/ : both spellings.

\* greetingHit: what RX.greeting.test(t) returned for PATTERNS.greeting[0];
\* binding: the function the binding fuzzyTokenHit holds.

Patterns_greeting(t, greetingHit, binding) ==
    << W(greetingHit, 55),
       W(Has(t, Alternatives.greeting.a1), 25),
       W(OnlyThenMarks(t, Alternatives.greeting.a2), 23),
       W(Has(t, Alternatives.greeting.a3), 22),
       W(Has(t, Alternatives.greeting.a4), 20),
       \* hi|hello|hey, then blanks or , . : ; dashes, then a group word
       W(\E i \in 1..Len(t) : \E k \in (i+1)..Len(t) :
             /\ t[i] \in { "hi", "hello", "hey" }
             /\ t[k] \in { "all", "everyone", "team", "folks", "yall", "y'all" }
             /\ \A m \in (i+1)..(k-1) : t[m] \in { ",", ".", ":", ";", "-" }, 20),
       W(Has(t, Alternatives.greeting.a6), 35),
       W(Has(t, Alternatives.greeting.a7), 65),
       W(StartsWith(t, Alternatives.greeting.a8), 20),
       \* one of the eight greeting emojis (named by code point)
       W(Has(t, Alternatives.greeting.a9), 18),
       W(callFuzzyTokenHit(binding, t, FuzzyGreetingVocab, 1, 2), 18) >>

Patterns_farewell(t) ==
    << W(Has(t, FAREWELL_BASE), 50),
       W(Has(t, Alternatives.farewell.a1), 22),
       W(Has(t, Alternatives.farewell.a2), 25),
       W(Has(t, Alternatives.farewell.a3), 22),
       W(Has(t, Alternatives.farewell.a4), 25),
       W(Has(t, Alternatives.farewell.a5), 45),
       W(Has(t, Alternatives.farewell.a6), 20),
       W(Has(t, Alternatives.farewell.a7), 23),
       W(Has(t, Alternatives.farewell.a8), 20) >>

Patterns_thanks(t) ==
    << W(wordMatcher(t, THANKS_BASE), 20),
       W(Has(t, Alternatives.thanks.a1), 20) >>

Patterns_affirmative(t) ==
    << W(Has(t, Alternatives.affirmative.a0), 45),
       W(Has(t, Alternatives.affirmative.a1), 65),
       W(Has(t, Alternatives.affirmative.a2), 40),
       W(Has(t, Alternatives.affirmative.a3), 43),
       W(Has(t, Alternatives.affirmative.a4), 41),
       W(Has(t, Alternatives.affirmative.a5), 40),
       W(Has(t, Alternatives.affirmative.a6), 40),
       W(Has(t, Alternatives.affirmative.a7), 40),
       W(OnlyThenMarks(t, Alternatives.affirmative.a8), 48),
       \* the emoji alternatives need a letter on either side (\b), which no token has
       W(Has(t, Alternatives.affirmative.a9), 40) >>

Patterns_negative(t) ==
    << W(Has(t, Alternatives.negative.a0), 60),
       W(Has(t, Alternatives.negative.a1), 65),
       W(Has(t, Alternatives.negative.a2), 65),
       W(Has(t, Alternatives.negative.a3), 60),
       W(Has(t, Alternatives.negative.a4), 62),
       W(Has(t, Alternatives.negative.a5), 58),
       W(Has(t, Alternatives.negative.a6), 40),
       W(OnlyThenMarks(t, Alternatives.negative.a7), 65),
       W(Has(t, Alternatives.negative.a8), 30),
       W(Has(t, Alternatives.negative.a9), 55) >>

Patterns_command(t) ==
    << W(StartsWith(t, Alternatives.command.a0), 25),
       W(Has(t, Alternatives.command.a1), 12),
       W(Has(t, Alternatives.command.a2), 13),
       W(Has(t, Alternatives.command.a3), 18) >>

Patterns_question(t) ==
    << W(endsWithQ(t), 23),
       W(StartsWith(t, Alternatives.question.a1), 24),
       W(Has(t, Alternatives.question.a2), 16) >>

Patterns_smalltalk(t) ==
    << W(Has(t, Alternatives.smalltalk.a0), 22),
       W(Has(t, Alternatives.smalltalk.a1), 20) >>

Patterns_ambiguous(t) ==
    << W(Has(t, Range(AMBIGUOUS_BASE)), 25) >>

\* PATTERNS: for every intent with patterns, what each pattern adds for text t.
PATTERNS(t, greetingHit, binding) ==
    [ troubleshooting |-> Patterns_troubleshooting(t),
      download_request |-> Patterns_download_request(t),
      viz_request |-> Patterns_viz_request(t),
      data_query |-> Patterns_data_query(t),
      filter_change |-> Patterns_filter_change(t),
      time_change |-> Patterns_time_change(t),
      metadata_request |-> Patterns_metadata_request(t),
      compare_request |-> Patterns_compare_request(t),
      help |-> Patterns_help(t),
      greeting |-> Patterns_greeting(t, greetingHit, binding),
      farewell |-> Patterns_farewell(t),
      thanks |-> Patterns_thanks(t),
      affirmative |-> Patterns_affirmative(t),
      negative |-> Patterns_negative(t),
      command |-> Patterns_command(t),
      question |-> Patterns_question(t),
      smalltalk |-> Patterns_smalltalk(t),
      ambiguous |-> Patterns_ambiguous(t) ]

\* ---------------------------------------------------------------------------
\* Ambiguous phrases (resolveAmbiguous).  The indicator regex has no closing \b;
\* on whole tokens it asks for the indicator's words.
resolveAmbiguous_farewell(phrase, t, first) == "farewell"

resolveAmbiguous(phrase, t, first) ==
    LET n == Len(phrase)
        groupPattern == Has(t, { phrase \o <<g[1]>> : g \in GROUP_ADDRESS_WORDS })
        farewellPattern ==
            \E f \in FAREWELL_INDICATORS :
                Has(t, { phrase \o f, phrase \o <<",">> \o f, phrase \o <<"and">> \o f,
                         phrase \o <<",", "and">> \o f })
        startsWithPhrase == t = phrase
        startsWithPhraseAndMore == Len(t) >= n /\ SubSeq(t, 1, n) = phrase
        endsWithPhrase == EndsWith(t, { phrase })
    IN  IF groupPattern THEN "greeting"
        ELSE IF farewellPattern THEN "farewell"
        ELSE IF startsWithPhrase THEN (IF first THEN "greeting" ELSE "farewell")
        ELSE IF startsWithPhraseAndMore /\ ~startsWithPhrase THEN "greeting"
        ELSE IF endsWithPhrase THEN "farewell"
        ELSE "farewell"

\* ---------------------------------------------------------------------------
\* Scoring (score), in tenths.
ZeroScores == [i \in Intent |-> 0]

add(s, i, d) == [s EXCEPT ![i] = @ + d]

\* "Apply patterns": every pattern of every intent, summed per intent.
sumPatterns(P) == [i \in Intent |-> IF i \in DOMAIN P THEN SumSeq(P[i]) ELSE 0]

applyPatterns(t, greetingHit, binding) == sumPatterns(PATTERNS(t, greetingHit, binding))

\* "Heuristics" and the four suppressions, one statement after the other.
softImperative(t, s) ==
    IF endsWithQ(t) /\ s["command"] > 0 THEN add(s, "question", 4) ELSE s

stopOrCancel(t, s) == IF Has(t, W1({ "stop", "cancel" })) THEN add(s, "command", 5) ELSE s

captureYear(t, s) ==
    IF s["time_change"] = 0 /\ HasYear(t) THEN add(s, "time_change", 12) ELSE s

captureCountry(t, s) ==
    IF s["filter_change"] = 0 /\ (wordMatcher(t, COUNTRY_NAMES) \/ wordMatcher(t, ISO2))
    THEN add(s, "filter_change", 10) ELSE s

smalltalkOverQuestion(s) ==
    IF s["smalltalk"] > 0 /\ s["question"] > 0 THEN add(s, "question", -8) ELSE s

greetingOverQuestion(s) ==
    IF s["greeting"] > 0 /\ s["question"] > 0 THEN add(s, "question", -25) ELSE s

farewellOverGreeting(s) ==
    IF s["farewell"] > 0 /\ s["greeting"] > 0 THEN add(s, "greeting", -30) ELSE s

farewellOverQuestion(s) ==
    IF s["farewell"] > 0 /\ s["question"] > 0 THEN add(s, "question", -25) ELSE s

heuristics(t, s0) ==
    farewellOverQuestion(farewellOverGreeting(greetingOverQuestion(smalltalkOverQuestion(
        captureCountry(t, captureYear(t, stopOrCancel(t, softImperative(t, s0))))))))

\* "Ambiguous intent resolution": the first phrase of AMBIGUOUS_BASE found in t
\* decides where the ambiguous score goes.
foundPhrases(t) == { k \in 1..Len(AMBIGUOUS_BASE) : Has(t, { AMBIGUOUS_BASE[k] }) }

firstOf(found) == CHOOSE x \in found : \A y \in found : x <= y

moveAmbiguous_keep(s, resolved) == add(s, resolved, s["ambiguous"])

moveAmbiguous(s, resolved) == [add(s, resolved, s["ambiguous"]) EXCEPT !["ambiguous"] = 0]

resolveFound(t, first, s, found) ==
    IF found = {} THEN s
    ELSE moveAmbiguous(s, resolveAmbiguous(AMBIGUOUS_BASE[firstOf(found)], t, first))

resolveAmbiguousScore(t, first, s) ==
    IF s["ambiguous"] > 0 THEN resolveFound(t, first, s, foundPhrases(t)) ELSE s

\* "If nothing fired, treat as a generic statement"; the alternative leaves the
\* vector as it is.
seedStatement_off(s) == s

seedStatement_always(s) == [s EXCEPT !["statement"] = 6]

seedStatement(s) ==
    IF \A i \in Intent : s[i] = 0 THEN [s EXCEPT !["statement"] = 6] ELSE s

\* The interrogative rewrite: a "?" is appended to a text that opens with an
\* interrogative, does not look like a greeting and does not end in "?".
appendQuestionMark_off(t, isGreeting) == t

appendQuestionMark(t, isGreeting) ==
    IF ~isGreeting /\ StartsWith(t, W1(Interrogatives)) /\ ~endsWithQ(t)
    THEN Append(t, "?") ELSE t

\* `if (!t)`: the early return of score; the alternative never takes it.
isEmptyText_never(t0) == FALSE

isEmptyText(t0) == t0 = << >>

\* The text the patterns are applied to.
rewriteText(t0) ==
    appendQuestionMark(t0, RegExpTest(makeGreetingRegexFlags, 0, t0, GREETING_BASE).hit)

textOf(raw) == rewriteText(normalize(raw))

\* Some pattern of a PATTERNS entry matched.
matchesAny(weights) == \E k \in 1..Len(weights) : weights[k] # 0

\* RX.greeting.lastIndex after score ran on raw: score tests RX.greeting twice,
\* for isGreeting and as the first greeting pattern.
lastIndexAfterPatterns(t0, g1) ==
    RegExpTest(makeGreetingRegexFlags, g1.lastIndex, appendQuestionMark(t0, g1.hit),
               GREETING_BASE).lastIndex

lastIndexAfterText(t0, li) ==
    IF isEmptyText(t0) THEN li
    ELSE lastIndexAfterPatterns(t0, RegExpTest(makeGreetingRegexFlags, li, t0, GREETING_BASE))

lastIndexAfterScore(raw, li) == lastIndexAfterText(normalize(raw), li)

\* score(text, isFirstMessage) run with the binding fuzzyTokenHit = binding and
\* RX.greeting.lastIndex = li: the score vector and the stages it went through.
scoreRewritten_ambiguousFirst(t, first, binding, li1) ==
    [ scores |->
          seedStatement(heuristics(t, resolveAmbiguousScore(t, first,
              applyPatterns(t, RegExpTest(makeGreetingRegexFlags, li1, t, GREETING_BASE).hit,
                            binding)))),
      stages |-> << "patterns", "ambiguous", "heuristics", "statement" >> ]

scoreRewritten(t, first, binding, li1) ==
    [ scores |->
          seedStatement(resolveAmbiguousScore(t, first, heuristics(t,
              applyPatterns(t, RegExpTest(makeGreetingRegexFlags, li1, t, GREETING_BASE).hit,
                            binding)))),
      stages |-> << "patterns", "heuristics", "ambiguous", "statement" >> ]

scoreGreetingTested(t0, first, binding, g1) ==
    scoreRewritten(appendQuestionMark(t0, g1.hit), first, binding, g1.lastIndex)

scoreNormalized(t0, first, binding, li) ==
    IF isEmptyText(t0)
    THEN [ scores |-> [ZeroScores EXCEPT !["invalid"] = 10], stages |-> << >> ]
    ELSE scoreGreetingTested(t0, first, binding,
                             RegExpTest(makeGreetingRegexFlags, li, t0, GREETING_BASE))

score(raw, first, binding, li) == scoreNormalized(normalize(raw), first, binding, li)
\* ---------------------------------------------------------------------------
\* preprocessInput (utils/preprocess.ts).  The chat inputs hold no control
\* character, HTML tag or profanity and are shorter than maxChars, so steps 1
\* and 2 normalize the text and replace its URLs and e-mail addresses.

\* The options preprocessInput completes an absent `opts` with.
DefaultOptions ==
    [ whitelist |-> << >>, domainVocab |-> DEFAULT_DOMAIN_VOCAB, enableSpell |-> TRUE,
      maxEditDistance |-> 1, collapseElongations |-> TRUE, keepPlaceholders |-> TRUE,
      protectInterrogatives |-> TRUE, protectFirstTokenIfQuestion |-> TRUE,
      protectSocialTokens |-> TRUE ]

\* normalize of the preprocessor, on tokens: lower-cased, whitespace collapsed
\* and trimmed (the chat inputs hold no diacritic, quote or zero-width character).
preprocessNormalize(raw) ==
    SelectSeq([i \in 1..Len(raw) |-> toLowerCase(raw[i])], LAMBDA tok : ~IsBlank(tok))

\* URL_RE and EMAIL_RE: regular expressions with the flags gi; `matches` holds
\* the tokens of the chat inputs they match.
URL_RE == [ flags |-> { "g", "i" }, matches |-> W1({ "https://ec.europa.eu" }) ]
EMAIL_RE == [ flags |-> { "g", "i" }, matches |-> W1({ "info@ec.europa.eu" }) ]

\* replaceUrlsAndEmails: every match becomes its placeholder, or is removed.
replaceUrlsAndEmails(input, keepPlaceholders) ==
    [i \in 1..Len(input) |->
        IF <<input[i]>> \in URL_RE.matches THEN (IF keepPlaceholders THEN "[url]" ELSE " ")
        ELSE IF <<input[i]>> \in EMAIL_RE.matches
             THEN (IF keepPlaceholders THEN "[email]" ELSE " ")
             ELSE input[i]]

\* String.prototype.replace with a regular expression that has the g flag
\* starts by setting its lastIndex to 0 and ends with lastIndex 0; the
\* alternative leaves lastIndex as it found it.
lastIndexAfterReplace_kept(li) == li

lastIndexAfterReplace(li) == 0

\* tokenize: the runs of letters and digits of the text, at most 1024 of them.
\* A word of the chat inputs is one such run, a placeholder holds one between its
\* brackets; the marks between them are dropped.
tokenize(t) ==
    LET runs ==
            SelectSeq([i \in 1..Len(t) |-> IF t[i] = "[url]" THEN "url"
                                           ELSE IF t[i] = "[email]" THEN "email" ELSE t[i]],
                      IsWord)
    IN  SubSeq(runs, 1, Min2(Len(runs), 1024))

\* token.replace(/([a-z])\1{2,}/g, '$1$1') on the characters of a token: a
\* character is dropped when the two kept before it are the same letter.
collapseRuns_off(chars, kept) == chars

RECURSIVE collapseRuns(_, _)
collapseRuns(chars, kept) ==
    IF chars = << >> THEN kept
    ELSE IF /\ Head(chars) \in Letters
            /\ Len(kept) >= 2
            /\ kept[Len(kept)] = Head(chars)
            /\ kept[Len(kept) - 1] = Head(chars)
         THEN collapseRuns(Tail(chars), kept)
         ELSE collapseRuns(Tail(chars), Append(kept, Head(chars)))

collapseElongationsToken(token) ==
    LET chars == collapseRuns(Spell(token), << >>)
        result == CHOOSE w \in ChatWords : IsWord(w) /\ Spell(w) = chars
    IN  [out |-> result, changed |-> result # token]

\* buildDictionary: the words in insertion order.  A word added twice keeps its
\* first place in the Set; here it is listed again, which suggestWord cannot
\* tell apart since a later word replaces the best one only when strictly better.
buildDictionary(options) ==
    EN_STOPWORDS \o EN_BASE_SMALL
        \o [i \in 1..Len(options.whitelist) |-> toLowerCase(options.whitelist[i])]
        \o [i \in 1..Len(options.domainVocab) |-> toLowerCase(options.domainVocab[i])]

\* levenshtein (the preprocessor's copy, the same Damerau-Levenshtein as in
\* intentDetection.ts) between each chat word and each dictionary word, computed once.
dictDistance ==
    [a \in { w \in ChatWords : IsWord(w) } |->
        [b \in Range(buildDictionary(DefaultOptions)) |-> levenshtein(Spell(a), Spell(b))]]

\* The loop of suggestWord keeps a word when none was kept, or when the word is
\* nearer than the kept one, or as near and shorter: what it ends with is the
\* first word of dict among those that are nearest and, of these, shortest.
\* (d = 0 cannot occur: a token of the dictionary has returned null before.)
bestOf_first(token, dict, maxEditDistance) ==
    LET near == { k \in 1..Len(dict) : dictDistance[token][dict[k]] <= maxEditDistance }
    IN  { dict[k] : k \in { k \in near : \A j \in near : k <= j } }

bestOf(token, dict, maxEditDistance) ==
    LET near == { k \in 1..Len(dict) : dictDistance[token][dict[k]] <= maxEditDistance }
        worse(j, k) ==
            \/ dictDistance[token][dict[j]] > dictDistance[token][dict[k]]
            \/ /\ dictDistance[token][dict[j]] = dictDistance[token][dict[k]]
               /\ Len(Spell(dict[j])) > Len(Spell(dict[k]))
        best == { k \in near : \A j \in near : ~worse(k, j) /\ (j < k => worse(j, k)) }
    IN  { dict[k] : k \in best }

\* suggestWord: << >> for null, <<w>> for the word w.
suggestWord(token, dict, maxEditDistance) ==
    IF \/ Len(Spell(token)) <= 2
       \/ \A i \in 1..Len(Spell(token)) : Spell(token)[i] \in Digits
       \/ includes(dict, token)
    THEN << >>
    ELSE IF bestOf(token, dict, maxEditDistance) = {} THEN << >>
    ELSE << CHOOSE w \in bestOf(token, dict, maxEditDistance) : TRUE >>

\* The callback of step 5 on one token; `first` is tokens[0].
correctToken(tok, first, options) ==
    IF \/ options.protectInterrogatives /\ tok \in INTERROGATIVES
       \/ options.protectSocialTokens /\ tok \in SOCIAL_TOKENS
       \/ options.protectFirstTokenIfQuestion /\ first \in INTERROGATIVES /\ tok = first
    THEN tok
    ELSE IF includes(EN_STOPWORDS, tok) THEN tok
    ELSE IF includes(buildDictionary(options), tok) THEN tok
    ELSE IF Len(Spell(tok)) <= 2 THEN tok
    ELSE IF suggestWord(tok, buildDictionary(options), options.maxEditDistance)
                \notin { << >>, <<tok>> }
         THEN suggestWord(tok, buildDictionary(options), options.maxEditDistance)[1]
         ELSE tok

\* The tokens after step 4, and after step 5 when given the tokens of step 4.
collapseTokens(tokens, options) ==
    [i \in 1..Len(tokens) |->
        IF options.collapseElongations THEN collapseElongationsToken(tokens[i]).out
        ELSE tokens[i]]

correctTokens(tokens, options) ==
    [i \in 1..Len(tokens) |->
        IF options.enableSpell THEN correctToken(tokens[i], tokens[1], options)
        ELSE tokens[i]]

\* The Correction Records pushed while `before` was mapped to `after`.
correctionsOf(before, after, reason) ==
    SelectSeq([i \in 1..Len(before) |-> [from |-> before[i], to |-> after[i], reason |-> reason]],
              LAMBDA c : c.from # c.to)

\* preprocessInput, called when URL_RE.lastIndex and EMAIL_RE.lastIndex are
\* li.URL_RE and li.EMAIL_RE: `cleaned` is tokens.join(' '), the corrected tokens
\* with one blank between them, followed by the placeholders of `working` (as
\* the tokens "[", "url" or "email", "]"); the flags hasUrl and hasEmail are
\* URL_RE.test(raw) and EMAIL_RE.test(raw).
preprocessInput(raw, options, li) ==
    LET working == replaceUrlsAndEmails(preprocessNormalize(raw), options.keepPlaceholders)
        split == tokenize(working)
        collapsed == collapseTokens(split, options)
        corrected == correctTokens(collapsed, options)
        found == SelectSeq(working, LAMBDA tok : tok \in { "[url]", "[email]" })
        placeholders ==
            [k \in 1..(3 * Len(found)) |->
                IF k % 3 = 1 THEN "["
                ELSE IF k % 3 = 0 THEN "]"
                ELSE IF found[(k + 1) \div 3] = "[url]" THEN "url" ELSE "email"]
    IN  [ original |-> raw,
          tokens |-> corrected,
          cleaned |-> corrected \o placeholders,
          corrections |-> correctionsOf(split, collapsed, "elongation")
                              \o correctionsOf(collapsed, corrected, "spelling"),
          flags |-> [ hasUrl |-> RegExpTest(URL_RE.flags, lastIndexAfterReplace(li.URL_RE),
                                            raw, URL_RE.matches).hit,
                      hasEmail |-> RegExpTest(EMAIL_RE.flags,
                                              lastIndexAfterReplace(li.EMAIL_RE),
                                              raw, EMAIL_RE.matches).hit ] ]

\* URL_RE.lastIndex and EMAIL_RE.lastIndex when preprocessInput returns.
lastIndexAfterPreprocess(raw, li) ==
    [ URL_RE |-> RegExpTest(URL_RE.flags, lastIndexAfterReplace(li.URL_RE),
                            raw, URL_RE.matches).lastIndex,
      EMAIL_RE |-> RegExpTest(EMAIL_RE.flags, lastIndexAfterReplace(li.EMAIL_RE),
                              raw, EMAIL_RE.matches).lastIndex ]

\* ---------------------------------------------------------------------------
\* Precedence and policy.
PRECEDENCE ==
    << "troubleshooting", "download_request", "viz_request", "compare_request",
       "metadata_request", "data_query", "command", "greeting", "question", "help",
       "thanks", "farewell", "smalltalk", "statement", "invalid" >>

MODIFIERS == { "time_change", "filter_change" }
NON_PREVAILING_SOCIAL == { "greeting", "thanks", "farewell", "smalltalk" }

\* Tuning knobs, in tenths.
NEAR_TIE_DELTA == 5
COINTENT_FRACTION == 6

\* Array.prototype.sort with comparator key(a) - key(b): ascending and stable.
RECURSIVE sortAsc(_, _)
sortAsc(s, key) ==
    IF s = << >> THEN << >>
    ELSE LET x == s[Len(s)]
             front == sortAsc(SubSeq(s, 1, Len(s) - 1), key)
             keep == { k \in 1..Len(front) : key[front[k]] <= key[x] }
             n == IF keep = {} THEN 0 ELSE CHOOSE k \in keep : \A m \in keep : m <= k
         IN  SubSeq(front, 1, n) \o <<x>> \o SubSeq(front, n + 1, Len(front))

without(s, S) == SelectSeq(s, LAMBDA i : i \notin S)

\* `active`: the [intent, score] entries with score > 0, highest score first.
activeEntries(s) ==
    LET order == sortAsc(SelectSeq(INTENTS, LAMBDA i : s[i] > 0), [i \in Intent |-> 0 - s[i]])
    IN  [k \in 1..Len(order) |-> <<order[k], s[order[k]]>>]

intentsOf(entries) == [k \in 1..Len(entries) |-> entries[k][1]]

\* `nearTop`: the intents within NEAR_TIE_DELTA of the top score.
nearTopOf(active) ==
    intentsOf(SelectSeq(active, LAMBDA e : active[1][2] - e[2] <= NEAR_TIE_DELTA))

\* `modifierHits`: the active modifiers; the alternative takes them from nearTop.
modifierHitsOf_nearTop(active) ==
    SelectSeq(nearTopOf(active), LAMBDA i : i \in MODIFIERS)

modifierHitsOf(active) ==
    intentsOf(SelectSeq(active, LAMBDA e : e[1] \in MODIFIERS))

\* `hasActionable`: the pool holds an intent that is neither social nor a fallback.
hasActionableIn_never(pool) == FALSE

hasActionableIn(pool) ==
    \E k \in 1..Len(pool) :
        pool[k] \notin NON_PREVAILING_SOCIAL /\ pool[k] # "statement" /\ pool[k] # "invalid"

\* "Special rule: troubleshooting always wins".
troubleshootingFirst(pool) ==
    IF includes(pool, "troubleshooting")
    THEN <<"troubleshooting">> \o without(pool, { "troubleshooting" }) ELSE pool

\* "Ensure compare/metadata can prevail over data_query even if not near-top";
\* the alternative leaves the pool alone.
forceOverDataQuery_off(pool, activeIntents, intent) == pool

forceOverDataQuery(pool, activeIntents, intent) ==
    IF /\ intent \in activeIntents /\ "data_query" \in activeIntents /\ ~includes(pool, intent)
    THEN <<intent>> \o pool ELSE pool

\* "If both greeting and farewell are present (and no actionable/generic), prefer
\* farewell".
forceFarewell(pool, activeIntents, hasActionable) ==
    LET onlySocialOrNone ==
            ~hasActionable /\ "command" \notin activeIntents /\ "question" \notin activeIntents
    IN  IF /\ onlySocialOrNone
           /\ "greeting" \in activeIntents /\ "farewell" \in activeIntents
           /\ ~includes(pool, "farewell")
        THEN <<"farewell">> \o pool ELSE pool

\* "let smalltalk prevail over a generic question".
forceSmalltalk_off(pool, activeIntents) == pool

forceSmalltalk(pool, activeIntents) ==
    LET hasCommand == "command" \in activeIntents
        hasAnyActionable ==
            \E k \in { "viz_request", "data_query", "download_request", "compare_request",
                       "metadata_request", "troubleshooting" } : k \in activeIntents
    IN  IF /\ ~hasAnyActionable /\ ~hasCommand /\ "smalltalk" \in activeIntents
           /\ ~includes(pool, "smalltalk")
        THEN <<"smalltalk">> \o without(pool, { "question" }) ELSE pool

\* The final `prevailing` pool.
prevailingOf(active) ==
    LET p0 == without(nearTopOf(active), MODIFIERS)
        hasActionable == hasActionableIn(p0)
        p1 == IF hasActionable THEN without(p0, NON_PREVAILING_SOCIAL) ELSE p0
        p2 == troubleshootingFirst(p1)
        activeIntents == Range(intentsOf(active))
        p3 == forceOverDataQuery(p2, activeIntents, "compare_request")
        p4 == forceOverDataQuery(p3, activeIntents, "metadata_request")
        p5 == forceFarewell(p4, activeIntents, hasActionable)
    IN  forceSmalltalk(p5, activeIntents)

\* `prevailing.sort(by PRECEDENCE.indexOf)[0]`.
choosePrimary_listedFirst(prevailing) ==
    sortAsc(prevailing, [i \in Intent |-> IF includes(PRECEDENCE, i) THEN indexOf(PRECEDENCE, i)
                                          ELSE Len(PRECEDENCE)])[1]

choosePrimary(prevailing) ==
    sortAsc(prevailing, [i \in Intent |-> indexOf(PRECEDENCE, i)])[1]

\* The primary when the pool is empty; the alternative is `topIntent` at once.
fallbackPrimary_top(active) == active[1][1]

fallbackPrimary_statement(active) == "statement"

fallbackPrimary_invalid(active) == "invalid"

fallbackPrimary(active) ==
    LET nonMods ==
            without(intentsOf(active),
                    MODIFIERS \cup { "statement", "invalid" } \cup NON_PREVAILING_SOCIAL)
    IN  IF Len(nonMods) > 0 THEN nonMods[1]
        ELSE IF Len(modifierHitsOf(active)) > 0 THEN "statement" ELSE active[1][1]

\* `coIntents`: v >= topScore * COINTENT_FRACTION, primary and modifiers left out;
\* the alternative keeps the modifiers.
coIntentsOf_withModifiers(active, primary) ==
    intentsOf(SelectSeq(active, LAMBDA e :
        e[1] # primary /\ 10 * e[2] >= active[1][2] * COINTENT_FRACTION))

coIntentsOf(active, primary) ==
    intentsOf(SelectSeq(active, LAMBDA e :
        e[1] # primary /\ e[1] \notin MODIFIERS /\ 10 * e[2] >= active[1][2] * COINTENT_FRACTION))

\* The resolver stage of resolveIntents, on the score vector s.
resolve(s) ==
    LET active == activeEntries(s)
    IN  IF Len(active) = 0
        THEN [primary |-> "invalid", coIntents |-> << >>, modifiers |-> << >>, scores |-> s]
        ELSE LET prevailing == prevailingOf(active)
                 primary == IF Len(prevailing) > 0 THEN choosePrimary(prevailing)
                            ELSE fallbackPrimary(active)
             IN  [primary |-> primary, coIntents |-> coIntentsOf(active, primary),
                  modifiers |-> modifierHitsOf(active), scores |-> s]

\* resolveIntents(text, isFirstMessage) under the given module state.
resolveScored(sc) == [res |-> resolve(sc.scores), stages |-> sc.stages]

resolveIntents(raw, first, binding, li) == resolveScored(score(raw, first, binding, li))
\* ---------------------------------------------------------------------------
\* The chat window: components/ChatbotUI.tsx and utils/messageProcessor.ts.

\* processMessage (utils/messageProcessor.ts): step 1 gives `preprocessed`, step 2
\* resolves its `cleaned` text.
\* `found` holds the lastIndex of URL_RE and of EMAIL_RE when it is called.
processMessage(input, first, binding, li, found) ==
    CHOOSE result \in
        { [ preprocessed |-> preprocessed,
            resolution |-> resolveIntents(preprocessed.cleaned, first, binding, li) ] :
          preprocessed \in { preprocessInput(input, DefaultOptions, found) } } : TRUE

\* ---------------------------------------------------------------------------
\* The program as a state machine.  data/patterns.ts is evaluated first (the
\* binding holds its stub), then intentDetection.ts, whose top level installs
\* the real function; only then can score and resolveIntents be called.  One
\* input (text, isFirstMessage) is observed; calls on other inputs only act on
\* the module state.
NoCall ==
    [fn |-> "none", primary |-> "none", coIntents |-> << >>, modifiers |-> << >>,
     scores |-> ZeroScores, stages |-> << >>]

\* What a call returned, as recorded in `out`.
returned(fn, r) ==
    [fn |-> fn, primary |-> r.res.primary, coIntents |-> r.res.coIntents,
     modifiers |-> r.res.modifiers, scores |-> r.res.scores, stages |-> r.stages]

returnedScores(r) ==
    [fn |-> "score", primary |-> "none", coIntents |-> << >>, modifiers |-> << >>,
     scores |-> r.scores, stages |-> r.stages]

\* No chat window is open.
ChatClosed ==
    /\ messages = << >>
    /\ loading = FALSE
    /\ saved = << >>
    /\ pending = << >>
    /\ processingResult = << >>
    /\ lastIndexOf = [URL_RE |-> 0, EMAIL_RE |-> 0]
    /\ enteredWith = lastIndexOf

Init ==
    /\ pc = "load"
    /\ fuzzyTokenHit = "stub"
    /\ lastIndex = 0
    /\ text \in Texts
    /\ isFirstMessage \in BOOLEAN
    /\ out = NoCall
    /\ firstOut = NoCall
    /\ interleaved = FALSE
    /\ vec = ZeroScores
    /\ ChatClosed

\* Module evaluation of intentDetection.ts: setFuzzyTokenHit(fuzzyTokenHit).
LoadIntentDetection ==
    /\ pc = "load"
    /\ pc' = "ready"
    /\ fuzzyTokenHit' = setFuzzyTokenHit("impl")
    /\ UNCHANGED <<lastIndex, text, isFirstMessage, out, firstOut, interleaved, vec, chat>>

CallResolveIntents ==
    /\ pc = "ready"
    /\ out' = returned("resolveIntents",
                       resolveIntents(text, isFirstMessage, fuzzyTokenHit, lastIndex))
    /\ firstOut' = IF firstOut = NoCall THEN out' ELSE firstOut
    /\ lastIndex' = lastIndexAfterScore(text, lastIndex)
    /\ UNCHANGED <<pc, fuzzyTokenHit, text, isFirstMessage, interleaved, vec, chat>>

CallScore ==
    /\ pc = "ready"
    /\ out' = returnedScores(score(text, isFirstMessage, fuzzyTokenHit, lastIndex))
    /\ lastIndex' = lastIndexAfterScore(text, lastIndex)
    /\ interleaved' = (firstOut # NoCall)
    /\ UNCHANGED <<pc, fuzzyTokenHit, text, isFirstMessage, firstOut, vec, chat>>

\* A call of resolveIntents on some other input, its result dropped.
CallOther ==
    /\ pc = "ready"
    /\ \E x \in OtherTexts :
           lastIndex' = lastIndexAfterScore(x, lastIndex)
    /\ interleaved' = (firstOut # NoCall)
    /\ UNCHANGED <<pc, fuzzyTokenHit, text, isFirstMessage, out, firstOut, vec, chat>>

Next == LoadIntentDetection \/ CallResolveIntents \/ CallScore \/ CallOther

Spec == Init /\ [][Next]_vars

\* ---------------------------------------------------------------------------
\* The resolver stage on its own: score vectors with at most MaxActive active
\* intents.  score gives `statement` and `invalid` a score only when every other
\* entry is 0, and leaves `ambiguous` at 0; only `question` and `greeting` are
\* ever reduced.
ScoreLevels == { 13, 18, 19, 30 }
VecIntents == Intent \ { "ambiguous", "statement", "invalid" }

\* question is reduced only next to an active smalltalk, greeting or farewell,
\* greeting only next to an active farewell.
Reducers == [question |-> { "smalltalk", "greeting", "farewell" }, greeting |-> { "farewell" }]

\* The vector with the scores f on its active intents and, for n other than
\* "none", the entry n reduced below 0.
ScoreVectorOf(f, n) ==
    [i \in Intent |-> IF i = n THEN -2 ELSE IF i \in DOMAIN f THEN f[i] ELSE 0]

\* The vector score returns on a documented sentence.
sentenceVector(x) == score(x, FALSE, "impl", 0).scores

InitVec ==
    /\ pc = "vector"
    /\ fuzzyTokenHit = "impl"
    /\ lastIndex = 0
    /\ text = << >>
    /\ isFirstMessage = FALSE
    /\ out = NoCall
    /\ firstOut = NoCall
    /\ interleaved = FALSE
    /\ ChatClosed
    /\ \/ \E A \in SUBSET VecIntents :
              /\ A # {}
              /\ Cardinality(A) <= MaxActive
              /\ \E f \in [A -> ScoreLevels], n \in { "none" } \cup DOMAIN Reducers :
                     /\ n # "none" =>
                            n \notin A /\ A \cap Reducers[n] # {} /\ Cardinality(A) < MaxActive
                     /\ vec = ScoreVectorOf(f, n)
       \/ vec \in { [ZeroScores EXCEPT !["statement"] = 6], [ZeroScores EXCEPT !["invalid"] = 10] }
       \/ \E x \in Sentences : vec = sentenceVector(x)

ResolveVec ==
    /\ pc = "vector"
    /\ out = NoCall
    /\ out' = returned("resolve", [res |-> resolve(vec), stages |-> << >>])
    /\ UNCHANGED <<pc, fuzzyTokenHit, lastIndex, text, isFirstMessage, firstOut, interleaved, vec, chat>>

SpecVec == InitVec /\ [][ResolveVec]_vars


\* ---------------------------------------------------------------------------
\* A conversation in the chat window.  The window has mounted with no saved
\* history: `messages` holds the bot's greeting.
InitChat ==
    /\ pc = "ready"
    /\ fuzzyTokenHit = "impl"
    /\ lastIndex = 0
    /\ text = << >>
    /\ isFirstMessage = FALSE
    /\ out = NoCall
    /\ firstOut = NoCall
    /\ interleaved = FALSE
    /\ vec = ZeroScores
    /\ messages = << "bot" >>
    /\ loading = FALSE
    /\ saved = << >>
    /\ pending = << >>
    /\ lastIndexOf = [URL_RE |-> 0, EMAIL_RE |-> 0]
    /\ enteredWith = lastIndexOf
    /\ processingResult = processMessage(<< >>, FALSE, "impl", 0, lastIndexOf)

\* handleSend up to its await, with processAndRespond up to its delay: the user
\* message is appended, then processAndRespond derives the flag from the list it
\* is handed and calls processMessage.
HandleSend ==
    /\ ~loading
    /\ Len(messages) < MaxMessages
    /\ \E input \in ChatTexts :
           /\ \E i \in 1..Len(input) : ~IsBlank(input[i])
           /\ text' = input
    /\ pending' = Append(messages, "user")
    /\ messages' = pending'
    /\ loading' = TRUE
    /\ isFirstMessage' = ~includes(pending', "user")
    /\ enteredWith' = lastIndexOf
    /\ processingResult' =
           processMessage(text', isFirstMessage', fuzzyTokenHit, lastIndex, lastIndexOf)
    /\ lastIndexOf' = lastIndexAfterPreprocess(text', lastIndexOf)
    /\ out' = returned("processMessage", processingResult'.resolution)
    /\ lastIndex' = lastIndexAfterScore(processingResult'.preprocessed.cleaned, lastIndex)
    /\ UNCHANGED <<pc, fuzzyTokenHit, firstOut, interleaved, vec, saved>>

\* The rest of processAndRespond and of handleSend: the history handed over is
\* saved and the bot's message appended to `messagesWithUser`; when the response
\* cannot be produced, nothing is saved and the message is the error message.
Respond ==
    /\ loading
    /\ pending # << >>
    /\ \E done \in BOOLEAN : saved' = IF done THEN pending ELSE saved
    /\ messages' = Append(pending, "bot")
    /\ loading' = FALSE
    /\ pending' = << >>
    /\ UNCHANGED <<pc, fuzzyTokenHit, lastIndex, text, isFirstMessage, out, firstOut,
                   interleaved, vec, processingResult, lastIndexOf, enteredWith>>

\* clearChat: the messages are reset to the bot's greeting, the stored history
\* removed.  A handleSend that is awaiting keeps its own list.
ClearChat ==
    /\ messages' = << "bot" >>
    /\ saved' = << >>
    /\ UNCHANGED <<pc, fuzzyTokenHit, lastIndex, text, isFirstMessage, out, firstOut,
                   interleaved, vec, loading, pending, processingResult, lastIndexOf,
                   enteredWith>>

\* The page is loaded again: the component state starts afresh and the mount
\* effect installs the saved messages when there are any.
Mount ==
    /\ messages' = IF saved # << >> THEN saved ELSE << "bot" >>
    /\ loading' = FALSE
    /\ pending' = << >>
    /\ UNCHANGED <<pc, fuzzyTokenHit, lastIndex, text, isFirstMessage, out, firstOut,
                   interleaved, vec, saved, processingResult, lastIndexOf, enteredWith>>

NextChat == HandleSend \/ Respond \/ ClearChat \/ Mount

SpecChat == InitChat /\ [][NextChat]_vars

\* ---------------------------------------------------------------------------
\* Properties.

\* The highest score of a vector.
topScoreOf(s) == CHOOSE m \in { s[i] : i \in Intent } : \A i \in Intent : s[i] <= m

\* C1: resolveIntents is deterministic: every call on the observed
\* (text, isFirstMessage) returns the Resolution its first call returned (same
\* primary, coIntents, modifiers and scores), whatever calls to score or to
\* resolveIntents, on this input or on another, were made before it.
C1_Deterministic ==
    (out.fn = "resolveIntents" /\ firstOut # NoCall) => out = firstOut

\* A repeated call on a text that RX.greeting matches, made after other calls.
C1_Witness ==
    /\ out.fn = "resolveIntents"
    /\ interleaved
    /\ Has(normalize(text), GREETING_BASE)
    /\ Len(normalize(text)) >= 2

\* C2: for a text whose normalized form is not empty resolveIntents returns a
\* primary of the intent enumeration other than invalid; invalid is the primary
\* only when the normalized text is empty.
C2_PrimaryValid ==
    out.fn = "resolveIntents" =>
        /\ out.primary \in Intent
        /\ (out.primary = "invalid") <=> (normalize(text) = << >>)

\* A text in which nothing fires degrades to statement.
C2_Witness ==
    /\ out.fn = "resolveIntents"
    /\ normalize(text) # << >>
    /\ out.primary = "statement"
    /\ out.scores["statement"] = 6

\* C3: for an empty or whitespace-only text score returns invalid = 1 and 0
\* everywhere else and runs no stage of the pipeline, and resolveIntents returns
\* primary invalid with no coIntents and no modifiers, whatever isFirstMessage.
C3_EmptyText ==
    (out.fn \in { "score", "resolveIntents" } /\ \A k \in 1..Len(text) : IsBlank(text[k])) =>
        /\ out.scores = [ZeroScores EXCEPT !["invalid"] = 10]
        /\ out.stages = << >>
        /\ out.fn = "resolveIntents" =>
               out.primary = "invalid" /\ out.coIntents = << >> /\ out.modifiers = << >>

\* resolveIntents ran on a whitespace-only first message.
C3_Witness ==
    /\ out.fn = "resolveIntents"
    /\ text = << " ", " " >>
    /\ isFirstMessage
    /\ out.primary = "invalid"

\* C4: the primary is never time_change or filter_change, whatever the score
\* vector, also when a modifier has the top score or is the only active intent.
C4_PrimaryNotModifier ==
    out.fn = "resolve" => out.primary \notin { "time_change", "filter_change" }

\* A modifier is the only active intent.
C4_Witness ==
    /\ out.fn = "resolve"
    /\ \A i \in Intent : (vec[i] > 0) <=> (i = "time_change")
    /\ out.primary = "statement"

\* C5: coIntents is exactly the set of the intents with score > 0 that are not
\* the primary, not time_change or filter_change, and whose score is at least
\* 60% of the top score; each of them is listed once.
C5_CoIntents ==
    out.fn = "resolve" =>
        /\ Range(out.coIntents) =
               { i \in Intent : /\ vec[i] > 0
                                /\ i # out.primary
                                /\ i \notin { "time_change", "filter_change" }
                                /\ 10 * vec[i] >= 6 * topScoreOf(vec) }
        /\ Cardinality(Range(out.coIntents)) = Len(out.coIntents)

\* A co-intent next to an active intent under the 60% and a modifier over it.
C5_Witness ==
    /\ out.fn = "resolve"
    /\ out.coIntents # << >>
    /\ \E i \in Intent \ { "time_change", "filter_change" } :
           vec[i] > 0 /\ 10 * vec[i] < 6 * topScoreOf(vec)
    /\ \E m \in { "time_change", "filter_change" } : 10 * vec[m] >= 6 * topScoreOf(vec)

\* C6: modifiers is exactly the set of the intents among time_change and
\* filter_change whose score is not 0, within 0.5 of the top score or not.
C6_Modifiers ==
    out.fn = "resolve" =>
        /\ Range(out.modifiers) = { m \in { "time_change", "filter_change" } : vec[m] # 0 }
        /\ Cardinality(Range(out.modifiers)) = Len(out.modifiers)

\* A modifier further than 0.5 from the top score is listed.
C6_Witness ==
    /\ out.fn = "resolve"
    /\ vec["filter_change"] > 0
    /\ topScoreOf(vec) - vec["filter_change"] > NEAR_TIE_DELTA
    /\ out.modifiers = << "filter_change" >>

\* C7: every entry of the score vector score returns is non-negative, for every
\* text and both values of isFirstMessage, the suppressions applied.
C7_ScoresNonNegative ==
    out.fn \in { "score", "resolveIntents" } => \A i \in Intent : out.scores[i] >= 0

\* C8: when the text matches a greeting pattern and a farewell pattern and no
\* intent other than greeting, thanks, farewell, smalltalk, statement and the
\* modifiers is active, the primary is farewell, however high the greeting score.
C8_FarewellPrecedence ==
    (/\ out.fn = "resolveIntents"
     /\ matchesAny(Patterns_greeting(textOf(text), Has(textOf(text), GREETING_BASE), "impl"))
     /\ matchesAny(Patterns_farewell(textOf(text)))
     /\ \A i \in Intent :
            out.scores[i] > 0 =>
                i \in { "greeting", "thanks", "farewell", "smalltalk", "statement",
                        "time_change", "filter_change" })
        => out.primary = "farewell"

\* C9: when the troubleshooting score is positive and within 0.5 of the top
\* score the primary is troubleshooting, whatever else is in the pool.
C9_TroubleshootingWins ==
    (/\ out.fn = "resolveIntents"
     /\ out.scores["troubleshooting"] > 0
     /\ topScoreOf(out.scores) - out.scores["troubleshooting"] <= 5)
        => out.primary = "troubleshooting"

\* C10: a text with a troubleshooting cue and a data-query cue (an energy or a
\* measure term) resolves to primary troubleshooting, whichever data_query
\* patterns it matches.
C10_TroubleshootingDominance ==
    (/\ out.fn = "resolveIntents"
     /\ matchesAny(Patterns_troubleshooting(textOf(text)))
     /\ wordMatcher(textOf(text), ENERGY_TERMS \cup MEASURE_TERMS))
        => out.primary = "troubleshooting"

\* C11: an utterance that is nothing but an ambiguous phrase ("good evening",
\* "night", "nite") resolves to primary greeting when isFirstMessage is true and
\* to primary farewell when it is false.
C11_AmbiguityDefault ==
    (out.fn = "resolveIntents" /\ normalize(text) \in Range(AMBIGUOUS_BASE)) =>
        out.primary = IF isFirstMessage THEN "greeting" ELSE "farewell"

\* C12: when data_query is active together with compare_request or with
\* metadata_request the primary is never data_query, however far the data_query
\* score is above the other; and "compare wind energy between Germany and
\* Spain" resolves to compare_request.
C12_NotDataQuery ==
    out.fn = "resolve" =>
        /\ (vec["data_query"] > 0 /\ (vec["compare_request"] > 0 \/ vec["metadata_request"] > 0))
               => out.primary # "data_query"
        /\ vec = sentenceVector(<< "compare", "wind", "energy", "between", "germany", "and",
                                   "spain" >>)
               => out.primary = "compare_request"

\* data_query is the top score, more than 0.5 above metadata_request, which wins.
C12_Witness ==
    /\ out.fn = "resolve"
    /\ vec["data_query"] = topScoreOf(vec)
    /\ vec["metadata_request"] > 0
    /\ vec["data_query"] - vec["metadata_request"] > NEAR_TIE_DELTA
    /\ out.primary = "metadata_request"

\* ---------------------------------------------------------------------------
\* The preprocessor and the conversation.

\* C13: preprocessInput with default options leaves every protected word (the
\* interrogatives, the social tokens and "see", "till", "well", "one", "out",
\* "off", "got") as it is and records no Correction Record for it, so "see you"
\* stays "see you" and "till tomorrow" stays "till tomorrow".
C13_ProtectedUnchanged ==
    out.fn = "processMessage" =>
        \A i \in 1..Len(tokenize(replaceUrlsAndEmails(preprocessNormalize(text), TRUE))) :
            tokenize(replaceUrlsAndEmails(preprocessNormalize(text), TRUE))[i]
                    \in INTERROGATIVES \cup SOCIAL_TOKENS
                        \cup { "see", "till", "well", "one", "out", "off", "got" }
                => /\ processingResult.preprocessed.tokens[i]
                          = tokenize(replaceUrlsAndEmails(preprocessNormalize(text), TRUE))[i]
                   /\ \A k \in 1..Len(processingResult.preprocessed.corrections) :
                          processingResult.preprocessed.corrections[k].from
                              # tokenize(replaceUrlsAndEmails(preprocessNormalize(text), TRUE))[i]

\* The maximal runs of a repeated character in a token, as <<character, length>>.
RECURSIVE runsOf(_, _)
runsOf(chars, runs) ==
    IF chars = << >> THEN runs
    ELSE IF runs # << >> /\ runs[Len(runs)][1] = Head(chars)
         THEN runsOf(Tail(chars), [runs EXCEPT ![Len(runs)] = <<@[1], @[2] + 1>>])
         ELSE runsOf(Tail(chars), Append(runs, <<Head(chars), 1>>))

\* a and b differ at most in the length of runs that are 3 or more long in both.
sameButLongRuns(a, b) ==
    /\ Len(runsOf(Spell(a), << >>)) = Len(runsOf(Spell(b), << >>))
    /\ \A k \in 1..Len(runsOf(Spell(a), << >>)) :
           /\ runsOf(Spell(a), << >>)[k][1] = runsOf(Spell(b), << >>)[k][1]
           /\ \/ runsOf(Spell(a), << >>)[k][2] = runsOf(Spell(b), << >>)[k][2]
              \/ runsOf(Spell(a), << >>)[k][2] >= 3 /\ runsOf(Spell(b), << >>)[k][2] >= 3

\* C14: two tokens that differ only in how long a run of three or more of a
\* letter is give the same cleaned token; collapsing a collapsed token changes
\* nothing; "heyyy" and "heyyyyy" resolve to primary greeting.
C14_ElongationCollapse ==
    (out.fn = "processMessage" /\ Len(text) = 1 /\ text[1] \in ChatWords /\ IsWord(text[1])) =>
        /\ \A v \in ChatWords :
               (IsWord(v) /\ sameButLongRuns(text[1], v)) =>
                   preprocessInput(<<v>>, DefaultOptions, lastIndexOf).cleaned
                       = processingResult.preprocessed.cleaned
        /\ ~collapseElongationsToken(collapseElongationsToken(text[1]).out).changed
        /\ text[1] \in { "heyyy", "heyyyyy" } =>
               /\ out.primary = "greeting"
               /\ \A first \in BOOLEAN :
                      processMessage(text, first, fuzzyTokenHit, 0, lastIndexOf).resolution.res.primary
                          = "greeting"

C14_Witness ==
    /\ out.fn = "processMessage"
    /\ text = << "heyyyyy" >>
    /\ processingResult.preprocessed.corrections[1]
           = [from |-> "heyyyyy", to |-> "heyy", reason |-> "elongation"]
    /\ processingResult.preprocessed.cleaned = preprocessInput(<< "heyyy" >>, DefaultOptions, lastIndexOf).cleaned
    /\ out.primary = "greeting"

\* C15: the flag handed to the resolver for a message is true exactly when the
\* conversation held no user message before it: true for the first message sent
\* (also the first after the chat is cleared), false for every later one.
C15_FirstMessageFlag ==
    (out.fn = "processMessage" /\ loading /\ pending # << >>) =>
        isFirstMessage = ~includes(SubSeq(pending, 1, Len(pending) - 1), "user")

\* ---------------------------------------------------------------------------
\* Ambiguous phrases and the stages of score.

C17_AmbiguousZero ==
    out.fn \in { "score", "resolveIntents" } =>
        /\ out.scores["ambiguous"] = 0
        /\ Has(textOf(text), Range(AMBIGUOUS_BASE)) =>
               LET before ==
                       heuristics(textOf(text),
                           applyPatterns(textOf(text),
                               RegExpTest(makeGreetingRegexFlags, 0, textOf(text), GREETING_BASE).hit,
                               fuzzyTokenHit))
               IN  /\ before["ambiguous"] = 25
                   /\ \E moved \in { "greeting", "farewell" } :
                          \A i \in Intent :
                              out.scores[i] = IF i = moved THEN before[i] + 25
                                              ELSE IF i = "ambiguous" THEN 0 ELSE before[i]

C17_Witness ==
    /\ out.fn = "score"
    /\ Has(textOf(text), Range(AMBIGUOUS_BASE))
    /\ includes(out.stages, "ambiguous")
    /\ out.scores["ambiguous"] = 0
    /\ out.scores["farewell"] >= 25

\* C18: the stages of score run in the order patterns, adjustments, ambiguity
\* resolution, statement seeding, and the four suppressions (smalltalk over
\* question, greeting over question, farewell over greeting, farewell over
\* question, in that order) are decided on the pattern scores: the 2.5 of an
\* ambiguous phrase triggers none of them and is reduced by none.
C18_StageOrder ==
    (out.fn \in { "score", "resolveIntents" } /\ normalize(text) # << >>) =>
        LET t == textOf(text)
            patterns ==
                applyPatterns(t, RegExpTest(makeGreetingRegexFlags, 0, t, GREETING_BASE).hit,
                              fuzzyTokenHit)
            q0 == patterns["question"]
                      + (IF endsWithQ(t) /\ patterns["command"] > 0 THEN 4 ELSE 0)
            q1 == q0 - (IF patterns["smalltalk"] > 0 /\ q0 > 0 THEN 8 ELSE 0)
            q2 == q1 - (IF patterns["greeting"] > 0 /\ q1 > 0 THEN 25 ELSE 0)
            g1 == patterns["greeting"]
                      - (IF patterns["farewell"] > 0 /\ patterns["greeting"] > 0 THEN 30 ELSE 0)
            q3 == q2 - (IF patterns["farewell"] > 0 /\ q2 > 0 THEN 25 ELSE 0)
        IN  /\ out.stages = << "patterns", "heuristics", "ambiguous", "statement" >>
            /\ out.scores["question"] = q3
            /\ <<out.scores["greeting"], out.scores["farewell"]>>
                   \in { <<g1 + patterns["ambiguous"], patterns["farewell"]>>,
                         <<g1, patterns["farewell"] + patterns["ambiguous"]>> }

\* A question whose only greeting signal is the ambiguous phrase keeps its score.
C18_Witness ==
    /\ out.fn = "score"
    /\ applyPatterns(textOf(text), FALSE, fuzzyTokenHit)["greeting"] = 0
    /\ applyPatterns(textOf(text), FALSE, fuzzyTokenHit)["ambiguous"] = 25
    /\ out.scores["greeting"] = 25
    /\ out.scores["question"] = applyPatterns(textOf(text), FALSE, fuzzyTokenHit)["question"]
    /\ out.scores["question"] > 0

\* C19: on a non-empty text on which no pattern matches and no adjustment
\* fires, score gives statement a positive score and 0 to every other intent,
\* and resolveIntents returns primary statement with no coIntents and no
\* modifiers; in no other case does statement get a score.
C19_StatementSeed ==
    out.fn \in { "score", "resolveIntents" } =>
        LET t == textOf(text)
            patterns ==
                applyPatterns(t, RegExpTest(makeGreetingRegexFlags, 0, t, GREETING_BASE).hit,
                              fuzzyTokenHit)
            nothingFired ==
                /\ normalize(text) # << >>
                /\ \A i \in Intent : patterns[i] = 0 /\ heuristics(t, patterns)[i] = 0
        IN  /\ nothingFired =>
                /\ out.scores["statement"] > 0
                /\ \A i \in Intent \ { "statement" } : out.scores[i] = 0
                /\ out.fn = "resolveIntents" =>
                       /\ out.primary = "statement"
                       /\ out.coIntents = << >>
                       /\ out.modifiers = << >>
            /\ out.scores["statement"] # 0 => nothingFired

C19_Witness ==
    /\ out.fn = "resolveIntents"
    /\ normalize(text) = << "xyzzy" >>
    /\ \A i \in Intent : applyPatterns(textOf(text), FALSE, fuzzyTokenHit)[i] = 0
    /\ out.scores["statement"] = 6
    /\ out.primary = "statement"
    /\ out.coIntents = << >>

\* C20: score evaluates the patterns on the text with a "?" appended exactly
\* when the text opens with who, what, when, where, why, how or which, the
\* greeting vocabulary matcher does not match it and it does not end in "?";
\* the question intent then gets its ends-with-"?" score of 2.3.
C20_InterrogativeRewrite ==
    (out.fn = "score" /\ normalize(text) # << >>) =>
        LET t0 == normalize(text)
            rewritten ==
                /\ t0[1] \in { "who", "what", "when", "where", "why", "how", "which" }
                /\ ~RegExpTest(makeGreetingRegexFlags, 0, t0, GREETING_BASE).hit
                /\ t0[Len(t0)] # "?"
            evaluated == IF rewritten THEN Append(t0, "?") ELSE t0
        IN  /\ \A i \in Intent :
                   out.scores[i]
                       = scoreRewritten(evaluated, isFirstMessage, fuzzyTokenHit, 0).scores[i]
            /\ rewritten =>
                   /\ Patterns_question(evaluated)[1] = 23
                   /\ Patterns_question(t0)[1] = 0
                   /\ applyPatterns(evaluated, FALSE, fuzzyTokenHit)["question"]
                          >= 23 + applyPatterns(t0, FALSE, fuzzyTokenHit)["question"]

C20_Witness ==
    /\ out.fn = "score"
    /\ normalize(text) = << "what", "price" >>
    /\ out.scores["question"] = 23 + 24

\* ---------------------------------------------------------------------------
\* Claims on the resolver's pool, the preprocessor and the whole pipeline.

\* Some active non-modifier within NEAR_TIE_DELTA of the top score is neither
\* social nor statement nor invalid.
nearTopActionable(s) ==
    \E i \in Intent \ (MODIFIERS \cup NON_PREVAILING_SOCIAL \cup { "statement", "invalid" }) :
        s[i] > 0 /\ topScoreOf(s) - s[i] <= NEAR_TIE_DELTA

\* C21 (as stated): when an actionable intent is within 0.5 of the top score,
\* the primary is none of greeting, thanks, farewell and smalltalk.
C21_SocialNeverPrimary ==
    (out.fn = "resolve" /\ nearTopActionable(out.scores)) =>
        out.primary \notin NON_PREVAILING_SOCIAL

\* C21 (amended): when an actionable intent is within 0.5 of the top score,
\* the primary is none of greeting, thanks and farewell, and it is smalltalk
\* only through the smalltalk override: smalltalk is active, no domain intent
\* and no command is active, and question is the only actionable intent near
\* the top.
C21_SocialOnlyBySmalltalkOverride ==
    (out.fn = "resolve" /\ nearTopActionable(out.scores)) =>
        /\ out.primary \notin { "greeting", "thanks", "farewell" }
        /\ out.primary = "smalltalk" =>
               /\ out.scores["smalltalk"] > 0
               /\ \A k \in { "viz_request", "data_query", "download_request", "compare_request",
                             "metadata_request", "troubleshooting", "command" } :
                      out.scores[k] <= 0
               /\ \A i \in Intent \ (MODIFIERS \cup NON_PREVAILING_SOCIAL
                                        \cup { "statement", "invalid", "question" }) :
                      ~(out.scores[i] > 0 /\ topScoreOf(out.scores) - out.scores[i] <= NEAR_TIE_DELTA)

\* "what nice to meet you do you know": question 3.0 alone near the top,
\* smalltalk 2.2, greeting 1.8.
C21_Witness ==
    /\ out.fn = "resolve"
    /\ out.scores["question"] = 30
    /\ out.scores["smalltalk"] = 22
    /\ nearTopActionable(out.scores)
    /\ out.primary = "smalltalk"
    /\ vec = sentenceVector(<< "what", "nice", "to", "meet", "you", "do", "you", "know" >>)

\* C22: when smalltalk is active and none of viz_request, data_query,
\* download_request, compare_request, metadata_request, troubleshooting and
\* command is, the primary is not question, however high question scores.
C22_SmalltalkOverQuestion ==
    ( /\ out.fn = "resolve"
      /\ out.scores["smalltalk"] > 0
      /\ \A k \in { "viz_request", "data_query", "download_request", "compare_request",
                    "metadata_request", "troubleshooting", "command" } : out.scores[k] <= 0 )
        => out.primary # "question"

C22_Witness ==
    /\ out.fn = "resolve"
    /\ out.scores["smalltalk"] = 13
    /\ out.scores["question"] = 30
    /\ \A i \in Intent \ { "smalltalk", "question" } : out.scores[i] = 0
    /\ out.primary = "smalltalk"
    /\ out.coIntents = << "question" >>

\* C23: when the final pool is not empty the primary is the pool member that
\* comes first in PRECEDENCE, and a member missing from PRECEDENCE is not
\* chosen ahead of a member that is listed.
C23_PrecedenceOrder ==
    (out.fn = "resolveIntents" /\ Len(activeEntries(out.scores)) > 0) =>
        LET pool == Range(prevailingOf(activeEntries(out.scores)))
            listed == { i \in pool : includes(PRECEDENCE, i) }
        IN  /\ pool # {} => out.primary \in pool
            /\ listed # {} =>
                   /\ out.primary \in listed
                   /\ \A j \in listed :
                          indexOf(PRECEDENCE, out.primary) <= indexOf(PRECEDENCE, j)

\* C24: when the final pool is empty, the primary is the highest-scoring
\* active intent that is no modifier, not social and not statement or invalid,
\* if there is one; otherwise statement when a modifier is active; otherwise
\* the top-scoring intent.
C24_EmptyPoolFallback ==
    ( /\ out.fn = "resolve"
      /\ Len(activeEntries(out.scores)) > 0
      /\ prevailingOf(activeEntries(out.scores)) = << >> ) =>
        LET eligible ==
                { i \in Intent \ (MODIFIERS \cup NON_PREVAILING_SOCIAL
                                      \cup { "statement", "invalid" }) : out.scores[i] > 0 }
        IN  IF eligible # {}
            THEN /\ out.primary \in eligible
                 /\ \A j \in eligible : out.scores[j] <= out.scores[out.primary]
            ELSE IF \E m \in MODIFIERS : out.scores[m] > 0
                 THEN out.primary = "statement"
                 ELSE out.scores[out.primary] = topScoreOf(out.scores)

C24_Witness ==
    /\ out.fn = "resolve"
    /\ prevailingOf(activeEntries(out.scores)) = << >>
    /\ out.scores["time_change"] = 30
    /\ out.scores["viz_request"] = 18
    /\ out.scores["help"] = 13
    /\ out.primary = "viz_request"

C27_QuotesNormalized ==
    out.fn \in { "score", "resolveIntents" } =>
        LET kept == SelectSeq(text, LAMBDA tok : tok # " ")
        IN  /\ Len(normalize(text)) = Len(kept)
            /\ \A i \in 1..Len(kept) :
                   normalize(text)[i]
                       = IF kept[i] \in { "U+201C", "U+201D" } THEN "\""
                         ELSE IF kept[i] \in { "U+2018", "U+2019" } THEN "'"
                         ELSE toLowerCase(kept[i])

\* C28: processMessage on an input that holds a character other than
\* whitespace, were it only punctuation, gives a primary other than invalid.
C28_NeverInvalid ==
    (out.fn = "processMessage" /\ \E i \in 1..Len(text) : ~IsBlank(text[i])) =>
        out.primary # "invalid"

\* C29: what preprocessInput returns, the flags hasUrl and hasEmail included,
\* depends on the raw input and the options only, not on the inputs
\* preprocessed before, although URL_RE and EMAIL_RE keep their lastIndex
\* between calls.
C29_HistoryIndependent ==
    out.fn = "processMessage" =>
        /\ processingResult.preprocessed
               = preprocessInput(text, DefaultOptions, [URL_RE |-> 0, EMAIL_RE |-> 0])
        /\ processingResult.preprocessed.flags.hasUrl
               = (\E i \in 1..Len(text) : text[i] = "https://ec.europa.eu")
        /\ processingResult.preprocessed.flags.hasEmail
               = (\E i \in 1..Len(text) : text[i] = "info@ec.europa.eu")

C29_Witness ==
    /\ out.fn = "processMessage"
    /\ enteredWith.URL_RE = 2
    /\ text = << "https://ec.europa.eu" >>
    /\ processingResult.preprocessed.flags.hasUrl
    /\ lastIndexOf.URL_RE = 1

\* C30: the score of the primary of a Resolution is strictly positive, except
\* that the primary may be statement with score 0, which happens only when
\* modifiers is not empty.
C30_PrimaryScorePositive ==
    out.fn = "resolveIntents" =>
        \/ out.scores[out.primary] > 0
        \/ /\ out.primary = "statement"
           /\ out.scores["statement"] = 0
           /\ out.modifiers # << >>

C30_Witness ==
    /\ out.fn = "resolveIntents"
    /\ normalize(text) = << "2020" >>
    /\ out.primary = "statement"
    /\ out.scores["statement"] = 0
    /\ out.modifiers = << "time_change" >>

=============================================================================
